---- MODULE Spec2Model ----
(***************************************************************************)
(* Model of pannellum-js-tiles-generator: the Config Builder               *)
(* (config-generator.ts), the Resource Tracker (utils/memory-manager.ts),  *)
(* the Reprojection Engine (reprojector.ts), the Tile Pyramid Generator    *)
(* (tiler.ts) and the PannellumTiler facade (PannellumTiler.ts).           *)
(*                                                                         *)
(* Numbers are the integers the code is used with (pixel sizes, levels).   *)
(* NaN is the one non-number value the arithmetic of the code can produce.  *)
(***************************************************************************)
EXTENDS Integers, Sequences, FiniteSets, TLC

\* ------------------------------------------------------------------ bounds

\* Largest cube resolution / tile size enumerated densely by the level
\* specification (the values of the repository's tests are added to them).
MaxLevelResolution == 48

MaxLevelTileSize == 6

\* Cube resolutions and texture limits of the direct reprojector calls.
MaxCubeResolution == 4

MaxTextureLimit == 3

\* Face resolutions, tile sizes and level counts of the direct tiler calls.
MaxTilerResolution == 4

MaxTilerTileSize == 2

MaxTilerLevel == 3

\* Optional fields a process() config sets at most.
MaxOptions == 1

\* Listeners registered with on() at most, over both events.
MaxListeners == 2

\* Download progress events of one source load at most.
MaxLoadEvents == 1

\* process() calls of one instance that get past validation, at most.
MaxRuns == 1

\* next() calls made on a stream after it has ended, at most.
MaxDrainedCalls == 2

\* disposeAll() calls made on one MemoryManager, at most.
MaxReleases == 3

\* Source widths from 0 up to this one are all tried.
MaxImageWidth == 120

\* ------------------------------------------------------- program constants

\* tiler.ts: const TILE_BATCH_SIZE = 10
TILE_BATCH_SIZE == 10

\* NaN, as calculateMaxLevel yields it: a value apart from every level count,
\* for which `level >= 1` is false as it is for NaN.
NaN == 0 - 1

\* ------------------------------------------------------------- arithmetic

Min(a, b) == IF a < b THEN a ELSE b

Max(a, b) == IF a > b THEN a ELSE b

RECURSIVE Pow2(_)
Pow2(n) == IF n <= 0 THEN 1 ELSE 2 * Pow2(n - 1)

\* Math.ceil(a / b) for a >= 0, b >= 1
CeilDiv(a, b) == (a + b - 1) \div b

\* Math.ceil(Math.log(num / den) / Math.log(2)) for num >= den >= 1: the
\* least k with den * 2^k >= num, found by doubling.
RECURSIVE CeilLog2Ratio(_, _)
CeilLog2Ratio(num, den) ==
    IF den >= num THEN 0 ELSE 1 + CeilLog2Ratio(num, 2 * den)

\* ------------------------------------------------------- config-generator

\* The generate.py edge-case test of calculateMaxLevel (its `if`).
PenultimateMatchesTile(cubeRes, levels, effectiveTileSize) ==
    /\ levels >= 2
    /\ (cubeRes \div Pow2(levels - 2)) = effectiveTileSize

\* Mutant: the edge-case correction is lost.
calculateMaxLevelNoCorrection(cubeRes, tSize) ==
    LET effectiveTileSize == Min(tSize, cubeRes)
    IN  IF effectiveTileSize <= 0 THEN NaN
        ELSE Max(1, CeilLog2Ratio(cubeRes, effectiveTileSize) + 1)

\* Mutant: the edge-case test looks one level too high.
calculateMaxLevelShifted(cubeRes, tSize) ==
    LET effectiveTileSize == Min(tSize, cubeRes)
        levels == CeilLog2Ratio(cubeRes, effectiveTileSize) + 1
    IN  IF effectiveTileSize <= 0 THEN NaN
        ELSE Max(1, IF /\ levels >= 2
                       /\ (cubeRes \div Pow2(levels - 1)) = effectiveTileSize
                    THEN levels - 1 ELSE levels)

\* calculateMaxLevel(cubeResolution, tileSize).  With cubeResolution = 0 the
\* ratio is 0/0 = NaN, every comparison with it is false and Math.max(1, NaN)
\* is NaN.
calculateMaxLevel(cubeRes, tSize) ==
    LET effectiveTileSize == Min(tSize, cubeRes)
        levels == CeilLog2Ratio(cubeRes, effectiveTileSize) + 1
    IN  IF effectiveTileSize <= 0 THEN NaN
        ELSE Max(1, IF PenultimateMatchesTile(cubeRes, levels, effectiveTileSize)
                    THEN levels - 1 ELSE levels)

\* ------------------------------------------------------------------ tiler

\* Mutant: the halved resolution is rounded up.
HalveResolutionUp(res) == (res + 1) \div 2

\* generateFaceTiles: currentResolution = Math.floor(currentResolution / 2)
HalveResolution(res) == res \div 2

\* generateFaceTiles: tilesPerSide = Math.ceil(currentResolution / tileSize)
\* Mutant: a partial tile at the edge is not counted.
TilesPerSideFloor(res, tSize) == res \div tSize

TilesPerSide(res, tSize) == CeilDiv(res, tSize)

\* generateFaceTiles: tileCoords, row y outer and column x inner.
TileCoords(res, tSize) ==
    LET n == TilesPerSide(res, tSize)
    IN  [k \in 1..(n * n) |-> [x |-> (k - 1) % n, y |-> (k - 1) \div n]]

\* Mutant: the whole rest of the level is started at once.
BatchSliceUnbounded(coords, i) == SubSeq(coords, i + 1, Len(coords))

\* generateFaceTiles: tileCoords.slice(i, i + TILE_BATCH_SIZE)
BatchSlice(coords, i) ==
    SubSeq(coords, i + 1, Min(i + TILE_BATCH_SIZE, Len(coords)))

\* generateFaceTiles / buildTile: the file extension of the format.
Extension(fmt) == IF fmt = "webp" THEN "webp" ELSE "jpg"

\* Mutant: the crop of an edge tile is not clipped to the raster.
buildTileUnclipped(res, tSize, lvl, faceName, x, y, fmt) ==
    [path |-> <<lvl, faceName, x, y, Extension(fmt)>>,
     level |-> lvl, face |-> faceName, x |-> x, y |-> y,
     blob |-> [sx |-> x * tSize, sy |-> y * tSize,
               sw |-> tSize, sh |-> tSize, outputSize |-> tSize]]

\* Mutant: the path names the row before the column.
buildTileRowFirst(res, tSize, lvl, faceName, x, y, fmt) ==
    [path |-> <<lvl, faceName, y, x, Extension(fmt)>>,
     level |-> lvl, face |-> faceName, x |-> x, y |-> y,
     blob |-> [sx |-> x * tSize, sy |-> y * tSize,
               sw |-> Min(tSize, res - x * tSize),
               sh |-> Min(tSize, res - y * tSize), outputSize |-> tSize]]

\* buildTile: the tile cut at (x, y) from the raster of one level of a face.
\* The path `${level}/${faceName}/${x}_${y}.${ext}` is kept as its parts, the
\* blob as the crop it encodes.
buildTile(res, tSize, lvl, faceName, x, y, fmt) ==
    LET sx == x * tSize
        sy == y * tSize
        sw == Min(tSize, res - sx)
        sh == Min(tSize, res - sy)
    IN  [path |-> <<lvl, faceName, x, y, Extension(fmt)>>,
         level |-> lvl, face |-> faceName, x |-> x, y |-> y,
         blob |-> [sx |-> sx, sy |-> sy, sw |-> sw, sh |-> sh,
                   outputSize |-> tSize]]

\* An empty slot of the array Promise.all fills.
NoTile == [pending |-> TRUE]

\* The position in the batch of the encode of tile t.
BatchPosition(batch, t) ==
    CHOOSE k \in 1..Len(batch) : batch[k].x = t.x /\ batch[k].y = t.y

\* Mutant: values are collected in the order the encodes finish.
SettleSlotByCompletion(batch, results, t) ==
    CHOOSE k \in 1..Len(results) :
        /\ results[k] = NoTile
        /\ \A j \in 1..(k - 1) : results[j] # NoTile

\* Promise.all: the value of a promise goes to the promise's own position.
SettleSlot(batch, results, t) == BatchPosition(batch, t)

\* Promise.all resolves when every promise of the batch has resolved.
BatchResolved(pending, results) == pending = {}

\* --------------------------------------------------------- memory-manager

NULL == "null"

\* MemoryManager's fields after construction.
EmptyMemory ==
    [textures |-> {}, geometries |-> {}, materials |-> {},
     renderTargets |-> {}, renderer |-> NULL]

trackTexture(m, r) == [m EXCEPT !.textures = @ \cup {r}]

trackGeometry(m, r) == [m EXCEPT !.geometries = @ \cup {r}]

trackMaterial(m, r) == [m EXCEPT !.materials = @ \cup {r}]

trackRenderTarget(m, r) == [m EXCEPT !.renderTargets = @ \cup {r}]

setRenderer(m, r) == [m EXCEPT !.renderer = r]

\* Every resource the tracker holds.
Tracked(m) ==
    m.textures \cup m.geometries \cup m.materials \cup m.renderTargets
        \cup (IF m.renderer = NULL THEN {} ELSE {m.renderer})

\* A set as a sequence, in some order (a Set is walked in insertion order;
\* the reprojector puts at most one resource in each).
RECURSIVE SetToSeq(_)
SetToSeq(S) ==
    IF S = {} THEN <<>>
    ELSE LET x == CHOOSE y \in S : TRUE IN <<x>> \o SetToSeq(S \ {x})

\* Mutant: the renderer is disposed before the resources it drew with.
DisposeOrderRendererFirst(m) ==
    (IF m.renderer = NULL THEN <<>> ELSE <<m.renderer>>)
        \o SetToSeq(m.textures) \o SetToSeq(m.geometries)
        \o SetToSeq(m.materials) \o SetToSeq(m.renderTargets)

\* disposeAll: the order in which the resources are disposed.
DisposeOrder(m) ==
    SetToSeq(m.textures) \o SetToSeq(m.geometries) \o SetToSeq(m.materials)
        \o SetToSeq(m.renderTargets)
        \o (IF m.renderer = NULL THEN <<>> ELSE <<m.renderer>>)

\* Mutant: the sets and the renderer reference are left as they were.
disposeAllKeeping(m) == m

\* disposeAll: the tracker afterwards.
disposeAll(m) ==
    [textures |-> {}, geometries |-> {}, materials |-> {},
     renderTargets |-> {}, renderer |-> NULL]

\* The elements of a sequence.
Range(s) == {s[k] : k \in 1..Len(s)}

\* disposeAll when the dispose() of the resources in `faulty` throws: the
\* place in the order of the first such resource, 0 when there is none.  No
\* statement of disposeAll is inside a try block, so the call ends there.
DisposeFailsAt(m, faulty) ==
    LET order == DisposeOrder(m)
    IN  IF \E k \in 1..Len(order) : order[k] \in faulty
        THEN CHOOSE k \in 1..Len(order) :
                 /\ order[k] \in faulty
                 /\ \A j \in 1..(k - 1) : order[j] \notin faulty
        ELSE 0

\* disposeAll: the resources whose dispose() has returned when the call ends.
DisposedBefore(m, faulty) ==
    LET k == DisposeFailsAt(m, faulty)
    IN  IF k = 0 THEN DisposeOrder(m) ELSE SubSeq(DisposeOrder(m), 1, k - 1)

\* disposeAll: the tracker when the call ends.  A set is cleared after the
\* loop over it, the renderer reference after the renderer's dispose(),
\* forceContextLoss() and the canvas assignments.
disposeAllWith(m, faulty) ==
    LET k == DisposeFailsAt(m, faulty)
        nT == Cardinality(m.textures)
        nG == nT + Cardinality(m.geometries)
        nM == nG + Cardinality(m.materials)
        nR == nM + Cardinality(m.renderTargets)
    IN  IF k = 0
        THEN disposeAll(m)
        ELSE [textures |-> IF k > nT THEN {} ELSE m.textures,
              geometries |-> IF k > nG THEN {} ELSE m.geometries,
              materials |-> IF k > nM THEN {} ELSE m.materials,
              renderTargets |-> IF k > nR THEN {} ELSE m.renderTargets,
              renderer |-> m.renderer]

\* The renderer's context and the side of its canvas: none created, in use,
\* and after forceContextLoss() and canvas.width = canvas.height = 1.
NoWebGL == [contextLost |-> FALSE, canvas |-> 0]

WebGLOf(side) == [contextLost |-> FALSE, canvas |-> side]

LostWebGL == [contextLost |-> TRUE, canvas |-> 1]

\* What the callers of the MemoryManager have seen: the last call, the value
\* it returned, whether it threw and at which resource, the resources it
\* disposed, and the disposeAll calls made so far.
NoCall ==
    [op |-> "none", returned |-> "undefined", raised |-> FALSE, failed |-> {},
     disposed |-> 0, releases |-> 0]

Returned(log, op, value) ==
    [log EXCEPT !.op = op, !.returned = value, !.raised = FALSE, !.failed = {},
                !.disposed = 0]

Released(log, m, faulty) ==
    LET k == DisposeFailsAt(m, faulty)
    IN  [op |-> "disposeAll", returned |-> "undefined", raised |-> k # 0,
         failed |-> IF k = 0 THEN {} ELSE {DisposeOrder(m)[k]},
         disposed |-> Len(DisposedBefore(m, faulty)),
         releases |-> log.releases + 1]

\* ------------------------------------------------------------ reprojector

\* Mutant: the left face is rendered before the right one.
FACE_CONFIGS_LeftFirst == <<"f", "l", "b", "r", "u", "d">>

\* reprojector.ts FACE_CONFIGS / PannellumTiler.ts FACE_NAMES, in render order.
FACE_CONFIGS == <<"f", "r", "b", "l", "u", "d">>

\* Reprojector / PannellumTiler constructor: maxTextureSize ?? 16384
DEFAULT_MAX_TEXTURE_SIZE == 16384

\* reprojectToCubeFaces: Math.min(maxSize, this.maxTextureSize)
EffectiveMaxTexture(platformLimit, configuredCap) == Min(platformLimit, configuredCap)

\* reprojectToCubeFaces: cubeResolution > effectiveMaxTexture
ExceedsTextureLimit(res, platformLimit, configuredCap) ==
    res > EffectiveMaxTexture(platformLimit, configuredCap)


\* ------------------------------------------- config-generator, continued

\* Math.PI * 8 as the fraction PI_TIMES_8 / PI_SCALE: the quotient below is the
\* floating-point one for every width under 5303.
PI_TIMES_8 == 251327

PI_SCALE == 10000

\* Mutant: the width is taken to be twice the height.
calculateCubeResolutionFromHeight(imageWidth, imageHeight) ==
    8 * ((2 * imageHeight * PI_SCALE) \div PI_TIMES_8)

\* calculateCubeResolution: 8 * Math.floor(imageWidth / Math.PI / 8)
calculateCubeResolution(imageWidth, imageHeight) ==
    8 * ((imageWidth * PI_SCALE) \div PI_TIMES_8)

\* JSON.stringify of a number: NaN is written as null.
JsonNumber(n) == IF n = NaN THEN <<"null">> ELSE <<"number", n>>

\* Mutant: the extension is jpg whatever the format.
generateConfigJpgOnly(tSize, mLevel, cubeRes, fmt, hasFallback) ==
    LET multiRes ==
            [basePath |-> "./", path |-> "/%l/%s/%x_%y", extension |-> "jpg",
             tileResolution |-> JsonNumber(tSize),
             maxLevel |-> JsonNumber(mLevel),
             cubeResolution |-> JsonNumber(cubeRes)]
    IN  [type |-> "multires",
         multiRes |->
             IF hasFallback
             THEN [k \in DOMAIN multiRes \cup {"fallbackPath"} |->
                      IF k = "fallbackPath" THEN "/fallback/%s" ELSE multiRes[k]]
             ELSE multiRes]

\* generateConfig: the descriptor that is stringified; fallbackPath is a key of
\* multiRes only with hasFallback.
generateConfig(tSize, mLevel, cubeRes, fmt, hasFallback) ==
    LET multiRes ==
            [basePath |-> "./", path |-> "/%l/%s/%x_%y",
             extension |-> Extension(fmt),
             tileResolution |-> JsonNumber(tSize),
             maxLevel |-> JsonNumber(mLevel),
             cubeResolution |-> JsonNumber(cubeRes)]
    IN  [type |-> "multires",
         multiRes |->
             IF hasFallback
             THEN [k \in DOMAIN multiRes \cup {"fallbackPath"} |->
                      IF k = "fallbackPath" THEN "/fallback/%s" ELSE multiRes[k]]
             ELSE multiRes]

\* ------------------------------------------------------ generateFallbackTiles

\* PannellumTiler.process: generateFallbackTiles(cubeFaces, 1024)
FALLBACK_SIZE == 1024

\* Mutant: the fallback tile is cut from the top left quarter of the face.
FallbackTileQuarter(face, fmt, fallbackSize) ==
    [path |-> <<"fallback", face.name, Extension(fmt)>>,
     level |-> 0, face |-> face.name, x |-> 0, y |-> 0,
     blob |-> [sx |-> 0, sy |-> 0, sw |-> face.resolution \div 2,
               sh |-> face.resolution \div 2, outputSize |-> fallbackSize]]

\* generateFallbackTiles: the tile of one face.
FallbackTile(face, fmt, fallbackSize) ==
    [path |-> <<"fallback", face.name, Extension(fmt)>>,
     level |-> 0, face |-> face.name, x |-> 0, y |-> 0,
     blob |-> [sx |-> 0, sy |-> 0, sw |-> face.resolution,
               sh |-> face.resolution, outputSize |-> fallbackSize]]

\* ------------------------------------------------------------ zip-builder

CONFIG_PATH == <<"config.json">>

\* Mutant: the assignment leaves no other key in the map.
PutFileAlone(files, path, bytes) == {[path |-> path, bytes |-> bytes]}

\* files[path] = bytes: an assignment to a key replaces the key's entry.
PutFile(files, path, bytes) ==
    {e \in files : e.path # path} \cup {[path |-> path, bytes |-> bytes]}

\* ---------------------------------------------------------- PannellumTiler

\* process: tileSize = 512
DEFAULT_TILE_SIZE == 512

\* An optional field: <<>> when undefined, <<v>> when given.
Undefined == <<>>

\* a ?? b and the destructuring default `a = b`
OrElse(opt, default) == IF opt = Undefined THEN default ELSE opt[1]

OUTPUT_MODES == {"zip", "raw", "stream"}

\* A config that gives none of the optional fields.
BareConfig(source, mode) ==
    [sourceImage |-> source, output |-> mode, quality |-> Undefined,
     tileSize |-> Undefined, fallbackTiles |-> Undefined,
     imageFormat |-> Undefined, cubeResolution |-> Undefined,
     maxLevel |-> Undefined, onProgress |-> "none"]

\* Mutant: validateConfig without the quality check.
validateConfigNoQuality(cfg) ==
    IF cfg.sourceImage = "" THEN "SourceRequired"
    ELSE IF cfg.output = "" THEN "OutputRequired"
    ELSE IF cfg.output \notin OUTPUT_MODES THEN "InvalidOutput"
    ELSE IF cfg.tileSize # Undefined /\ cfg.tileSize[1] < 1
    THEN "TileSizePositive"
    ELSE "none"

\* validateConfig: the error it throws, "none" when it returns. quality is in
\* hundredths.
validateConfig(cfg) ==
    IF cfg.sourceImage = "" THEN "SourceRequired"
    ELSE IF cfg.output = "" THEN "OutputRequired"
    ELSE IF cfg.output \notin OUTPUT_MODES THEN "InvalidOutput"
    ELSE IF cfg.quality # Undefined
            /\ (cfg.quality[1] < 0 \/ cfg.quality[1] > 100)
    THEN "QualityRange"
    ELSE IF cfg.tileSize # Undefined /\ cfg.tileSize[1] < 1
    THEN "TileSizePositive"
    ELSE "none"

ConfigErrors ==
    {"SourceRequired", "OutputRequired", "InvalidOutput", "QualityRange",
     "TileSizePositive"}

\* Mutant: process validates the config before it looks at the disposed flag.
EntryCheckValidationFirst(isDisposed, cfg) ==
    IF validateConfig(cfg) # "none" THEN validateConfig(cfg)
    ELSE IF isDisposed THEN "DisposedError"
    ELSE "none"

\* process, lines 68-72: the disposed check, then validateConfig.
EntryCheck(isDisposed, cfg) ==
    IF isDisposed THEN "DisposedError" ELSE validateConfig(cfg)

\* on: Set.add keeps a callback that is already registered where it is.
AddListener(callbacks, cb) ==
    IF \E i \in 1..Len(callbacks) : callbacks[i] = cb
    THEN callbacks ELSE Append(callbacks, cb)

\* off: Set.delete
RemoveListener(callbacks, cb) == SelectSeq(callbacks, LAMBDA c : c # cb)

\* The first position of callbacks that holds a thrower, 0 when none does.
FirstThrower(callbacks, throwers) ==
    IF \E i \in 1..Len(callbacks) : callbacks[i] \in throwers
    THEN CHOOSE i \in 1..Len(callbacks) :
            /\ callbacks[i] \in throwers
            /\ \A j \in 1..(i - 1) : callbacks[j] \notin throwers
    ELSE 0

\* Mutant: emit without the try/catch around the callback.
emitUnguarded(callbacks, throwers) ==
    LET k == FirstThrower(callbacks, throwers)
    IN  IF k = 0 THEN [invoked |-> callbacks, propagated |-> FALSE]
        ELSE [invoked |-> SubSeq(callbacks, 1, k), propagated |-> TRUE]

\* emit: every callback of the event is invoked in registration order and what
\* it throws is caught.
emit(callbacks, throwers) == [invoked |-> callbacks, propagated |-> FALSE]
\* ------------------------------------------------------------------ state

VARIABLES
    pc,                \* position of the running call
    error,             \* the exception in flight or thrown by the last call
    entry,             \* the operation the caller invoked
    disposed,          \* PannellumTiler.disposed
    listeners,         \* PannellumTiler.listeners, per event in insertion order
    maxTextureSize,    \* options.maxTextureSize / Reprojector.maxTextureSize
    glMaxTextureSize,  \* gl.getParameter(gl.MAX_TEXTURE_SIZE)
    runs,              \* process() calls that got past validation
    config,            \* the config of the last process() call
    outcome,           \* how the last process() promise settled
    sourceImage,       \* process: sourceImage (its kind)
    output,            \* process: output
    fallbackTiles,     \* process: fallbackTiles
    cfgCubeResolution, \* config.cubeResolution
    image,             \* calculateCubeResolution: imageWidth and imageHeight
    cfgMaxLevel,       \* config.maxLevel
    loadStarted,       \* loadImage has been called by the running call
    onProgress,        \* the progress callback handed to the call
    imageFormat,       \* process: imageFormat / Tiler.imageFormat
    cubeResolution,    \* process / reprojectToCubeFaces: cubeResolution
    tileSize,          \* process / generateTilePyramid: tileSize
    maxLevel,          \* process / generateTilePyramid: maxLevel
    memory,            \* Reprojector.memory (the MemoryManager)
    live,              \* rendering resources created and not disposed
    disposeLog,        \* resources disposed, in order
    webgl,             \* the renderer's context and canvas
    calls,             \* what the callers of the MemoryManager have seen
    faces,             \* reprojectToCubeFaces: faces / process: cubeFaces
    faceI,             \* reprojectToCubeFaces: i
    tiles,             \* generateTilePyramid: tiles
    faceIndex,         \* generateTilePyramid: faceIndex
    faceTiles,         \* generateFaceTiles: tiles
    level,             \* generateFaceTiles: level
    currentResolution, \* generateFaceTiles: currentResolution
    batchI,            \* generateFaceTiles: i of the batch loop
    inFlight,          \* tiles whose encode has started and has not settled
    batchResults,      \* the values Promise.all has collected for the batch
    fallbackTilesList, \* process: fallbackTilesList / generateFallbackTiles: tiles
    files,             \* createZipOutput: files
    zipI,              \* createZipOutput: i
    result,            \* the value the last process() promise resolved with
    stream,            \* the generator of a stream result and what it has yielded
    progressLog,       \* the progress events handed to the progress sink
    lastEmit,          \* the latest emit(): event, callbacks, invoked, throwers
    errorEmits,        \* emit('error') calls made by the running call
    uncaught           \* exceptions that left an event handler of the call uncaught

instVars ==
    <<entry, disposed, listeners, maxTextureSize, glMaxTextureSize, runs>>

callVars ==
    <<config, outcome, sourceImage, output, fallbackTiles,
      cfgCubeResolution, cfgMaxLevel, image, loadStarted, onProgress,
      imageFormat>>

dimVars == <<cubeResolution, tileSize, maxLevel>>

reprojVars == <<memory, live, disposeLog, webgl, calls, faces, faceI>>

tilerVars ==
    <<tiles, faceIndex, faceTiles, level, currentResolution, batchI, inFlight,
      batchResults>>

packVars == <<fallbackTilesList, files, zipI, result, stream>>

sinkVars == <<progressLog, lastEmit, errorEmits, uncaught>>

vars ==
    <<pc, error, instVars, callVars, dimVars, reprojVars, tilerVars, packVars,
      sinkVars>>

NoError == "none"

\* No image is at hand.
NoImage == [width |-> 0, height |-> 0]

\* No stream result has been built.
NoStream == [state |-> "none"]

NoResult == [kind |-> "none"]

NoListeners == [progress |-> <<>>, error |-> <<>>]

NoEmit ==
    [event |-> "none", registered |-> <<>>, invoked |-> <<>>, throwers |-> {},
     propagated |-> FALSE]

\* ---------------------------------------------------------- progress sink

\* Kinds of progress callback: none given, one that returns, one that may throw.
CallbackKinds == {"none", "quiet", "faulty"}

\* Listeners that can be registered: one that returns, one that may throw.
ListenerKinds == {"quietL", "faultyL"}

\* Whether a call of the callback may throw.
MayThrow(cb) == cb \in {"faulty", "faultyL"}

\* The choices of which of the callbacks throw during one emit().
ThrowerSets(callbacks) ==
    SUBSET {callbacks[i] : i \in {j \in 1..Len(callbacks) : MayThrow(callbacks[j])}}

\* One emit(event, data) to the callbacks registered for the event.
Emission(event, callbacks, throwers) ==
    LET r == emit(callbacks, throwers)
    IN  [event |-> event, registered |-> callbacks, invoked |-> r.invoked,
         throwers |-> throwers, propagated |-> r.propagated]

Emissions(event) ==
    {Emission(event, listeners[event], th) : th \in ThrowerSets(listeners[event])}

\* A progress event: stage, progress as a fraction <<numerator, denominator>>,
\* currentFace and currentLevel ("" and 0 when absent).
ProgressInfo(stage, num, den, face, lvl) ==
    [stage |-> stage, progress |-> <<num, den>>, currentFace |-> face,
     currentLevel |-> lvl]

\* The outcomes of handing one event to the progress sink.  Inside process()
\* the sink is the broadcaster of lines 85-88: onProgress?.(info), whose throw
\* leaves the broadcaster, then emit('progress', info).  A direct caller's sink
\* is the bare callback.
BroadcastTo(cb, previous) ==
    (IF MayThrow(cb)
     THEN {[error |-> "CallbackError", emission |-> previous]}
     ELSE {})
    \cup
    (IF entry = "process"
     THEN {[error |-> IF e.propagated THEN "ListenerError" ELSE NoError,
            emission |-> e] : e \in Emissions("progress")}
     ELSE {[error |-> NoError, emission |-> previous]})

Broadcast == BroadcastTo(onProgress, lastEmit)

\* ------------------------------------------------------------- idle states

\* The reprojector's state before any call.
ReprojIdle ==
    /\ memory = EmptyMemory
    /\ live = {}
    /\ disposeLog = <<>>
    /\ webgl = NoWebGL
    /\ calls = NoCall
    /\ faces = <<>>
    /\ faceI = 0

\* The tiler's state before any call.
TilerIdle ==
    /\ tiles = <<>>
    /\ faceIndex = 0
    /\ faceTiles = <<>>
    /\ level = 0
    /\ currentResolution = 0
    /\ batchI = 0
    /\ inFlight = {}
    /\ batchResults = <<>>

\* The packaging state before any call.
PackIdle ==
    /\ fallbackTilesList = <<>>
    /\ files = {}
    /\ zipI = 0
    /\ result = NoResult
    /\ stream = NoStream

\* No process() call has been made.
CallIdle ==
    /\ config = BareConfig("", "")
    /\ outcome = "none"
    /\ sourceImage = ""
    /\ output = ""
    /\ fallbackTiles = FALSE
    /\ cfgCubeResolution = Undefined
    /\ cfgMaxLevel = Undefined
    /\ image = NoImage
    /\ loadStarted = FALSE

SinkIdle ==
    /\ progressLog = <<>>
    /\ lastEmit = NoEmit
    /\ errorEmits = 0
    /\ uncaught = 0

\* A caller that uses a module directly: no PannellumTiler instance.
NoInstance ==
    /\ disposed = FALSE
    /\ runs = 0
    /\ listeners = NoListeners
\* ------------------------------------------- specification of the levels

\* The values of tests/config-generator.test.ts and of the 4096x2048 scenario.
TestResolutions == {64, 256, 512, 1024, 1304, 2048, 4096}

TestTileSizes == {512}

LevelResolutions == (1..MaxLevelResolution) \cup TestResolutions

LevelTileSizes == (1..MaxLevelTileSize) \cup TestTileSizes

InitLevels ==
    /\ pc = "idle"
    /\ error = NoError
    /\ entry = "levels"
    /\ NoInstance
    /\ maxTextureSize = DEFAULT_MAX_TEXTURE_SIZE
    /\ glMaxTextureSize = DEFAULT_MAX_TEXTURE_SIZE
    /\ CallIdle
    /\ onProgress = "none"
    /\ imageFormat = "jpeg"
    /\ cubeResolution \in LevelResolutions
    /\ tileSize \in LevelTileSizes
    /\ maxLevel = 0
    /\ ReprojIdle
    /\ TilerIdle
    /\ PackIdle
    /\ SinkIdle

\* maxLevel = calculateMaxLevel(cubeResolution, tileSize), then the level loop
\* of generateFaceTiles starts at level = maxLevel on the face raster.
CallCalculateMaxLevel ==
    /\ pc = "idle"
    /\ entry = "levels"
    /\ maxLevel' = calculateMaxLevel(cubeResolution, tileSize)
    /\ level' = maxLevel'
    /\ currentResolution' = cubeResolution
    /\ pc' = "levels"
    /\ UNCHANGED <<error, instVars, callVars, cubeResolution, tileSize,
                   reprojVars, packVars, sinkVars, tiles, faceIndex, faceTiles,
                   batchI, inFlight, batchResults>>

\* One pass of `for (level = maxLevel; level >= 1; level--)`: the next lower
\* level halves the previous level's resolution.
DescendLevel ==
    /\ pc = "levels"
    /\ level > 1
    /\ level' = level - 1
    /\ currentResolution' = HalveResolution(currentResolution)
    /\ UNCHANGED <<pc, error, instVars, callVars, dimVars, reprojVars,
                   packVars, sinkVars, tiles, faceIndex, faceTiles, batchI,
                   inFlight, batchResults>>

NextLevels == CallCalculateMaxLevel \/ DescendLevel

SpecLevels == InitLevels /\ [][NextLevels]_vars

\* ------------------------------- specification of the cube resolution

\* The widths of tests/config-generator.test.ts that the fraction for pi is
\* exact for, and of the 4096x2048 scenario.
TestWidths == {1000, 2000, 3000, 4096, 5000}

SourceWidths == (0..MaxImageWidth) \cup TestWidths

\* Heights tried with a width: none, half the width, the width.
SourceHeights(w) == {0, w \div 2, w}

InitResolution ==
    /\ pc = "idle"
    /\ error = NoError
    /\ entry = "resolution"
    /\ NoInstance
    /\ maxTextureSize = DEFAULT_MAX_TEXTURE_SIZE
    /\ glMaxTextureSize = DEFAULT_MAX_TEXTURE_SIZE
    /\ config = BareConfig("", "")
    /\ outcome = "none"
    /\ sourceImage = ""
    /\ output = ""
    /\ fallbackTiles = FALSE
    /\ cfgCubeResolution = Undefined
    /\ cfgMaxLevel = Undefined
    /\ \E w \in SourceWidths :
          \E h \in SourceHeights(w) : image = [width |-> w, height |-> h]
    /\ loadStarted = FALSE
    /\ onProgress = "none"
    /\ imageFormat = "jpeg"
    /\ cubeResolution = 0
    /\ tileSize \in {1, 8, DEFAULT_TILE_SIZE}
    /\ maxLevel = 0
    /\ ReprojIdle
    /\ TilerIdle
    /\ PackIdle
    /\ SinkIdle

\* process lines 115-117 without an override:
\* cubeResolution = calculateCubeResolution(naturalWidth, naturalHeight)
CallCalculateCubeResolution ==
    /\ pc = "idle"
    /\ entry = "resolution"
    /\ cubeResolution' = calculateCubeResolution(image.width, image.height)
    /\ pc' = "sized"
    /\ UNCHANGED <<error, instVars, callVars, tileSize, maxLevel, reprojVars,
                   tilerVars, packVars, sinkVars>>

\* process lines 119-120 without an override:
\* maxLevel = calculateMaxLevel(cubeResolution, tileSize)
DeriveMaxLevel ==
    /\ pc = "sized"
    /\ entry = "resolution"
    /\ maxLevel' = calculateMaxLevel(cubeResolution, tileSize)
    /\ pc' = "levelled"
    /\ UNCHANGED <<error, instVars, callVars, cubeResolution, tileSize,
                   reprojVars, tilerVars, packVars, sinkVars>>

NextResolution == CallCalculateCubeResolution \/ DeriveMaxLevel

SpecResolution == InitResolution /\ [][NextResolution]_vars

\* ----------------------------------- specification of the descriptor

\* The metadata tried with generateConfig: tile sizes, levels and resolutions
\* inside and outside what process() derives.
DescriptorTileSizes == {1, 2, 256, DEFAULT_TILE_SIZE}

DescriptorLevels == 0..4

DescriptorResolutions == {0, 6, 8, 1296, 2048}

InitDescriptor ==
    /\ pc = "idle"
    /\ error = NoError
    /\ entry = "descriptor"
    /\ NoInstance
    /\ maxTextureSize = DEFAULT_MAX_TEXTURE_SIZE
    /\ glMaxTextureSize = DEFAULT_MAX_TEXTURE_SIZE
    /\ config = BareConfig("", "")
    /\ outcome = "none"
    /\ sourceImage = ""
    /\ output = ""
    /\ fallbackTiles \in BOOLEAN
    /\ cfgCubeResolution = Undefined
    /\ cfgMaxLevel = Undefined
    /\ image = NoImage
    /\ loadStarted = FALSE
    /\ onProgress = "none"
    /\ imageFormat \in {"jpeg", "webp"}
    /\ cubeResolution \in DescriptorResolutions
    /\ tileSize \in DescriptorTileSizes
    /\ maxLevel \in DescriptorLevels
    /\ ReprojIdle
    /\ TilerIdle
    /\ PackIdle
    /\ SinkIdle

\* generateConfig({ tileSize, maxLevel, cubeResolution, imageFormat,
\* hasFallback }): the string returned, as the object JSON.parse reads back.
CallGenerateConfig ==
    /\ pc = "idle"
    /\ entry = "descriptor"
    /\ result' = [kind |-> "descriptor",
                  json |-> generateConfig(tileSize, maxLevel, cubeResolution,
                                          imageFormat, fallbackTiles)]
    /\ pc' = "described"
    /\ UNCHANGED <<error, instVars, callVars, dimVars, reprojVars, tilerVars,
                   fallbackTilesList, files, zipI, stream, sinkVars>>

SpecDescriptor == InitDescriptor /\ [][CallGenerateConfig]_vars

\* ------------------------------------------------- reprojectToCubeFaces

\* Lines 56-67: the off-screen canvas and the WebGL renderer are created and
\* the renderer is registered with the tracker.
ReprojCreateRenderer ==
    /\ pc = "reprojCreate"
    /\ live' = live \cup {"renderer"}
    /\ memory' = setRenderer(memory, "renderer")
    /\ webgl' = WebGLOf(cubeResolution)
    /\ calls' = Returned(calls, "setRenderer", "undefined")
    /\ pc' = "reprojValidate"
    /\ UNCHANGED <<error, instVars, callVars, dimVars, tilerVars, packVars,
                   sinkVars, disposeLog, faces, faceI>>

\* Lines 70-77: the GPU limit check; its throw leaves the function at once.
ReprojValidate ==
    /\ pc = "reprojValidate"
    /\ IF ExceedsTextureLimit(cubeResolution, glMaxTextureSize, maxTextureSize)
       THEN pc' = "reprojThrew" /\ error' = "ResourceLimitError"
       ELSE pc' = "reprojScene" /\ error' = error
    /\ UNCHANGED <<instVars, callVars, dimVars, tilerVars, reprojVars,
                   packVars, sinkVars>>

\* Lines 80-117: texture, sphere geometry, material and render target are
\* created and tracked; faces = [].
ReprojBuildScene ==
    /\ pc = "reprojScene"
    /\ live' = live \cup {"texture", "geometry", "material", "renderTarget"}
    /\ memory' = trackRenderTarget(trackMaterial(trackGeometry(
                     trackTexture(memory, "texture"), "geometry"), "material"),
                     "renderTarget")
    /\ calls' = Returned(calls, "trackRenderTarget", "renderTarget")
    /\ faces' = <<>>
    /\ faceI' = 0
    /\ pc' = "reprojFace"
    /\ UNCHANGED <<error, instVars, callVars, dimVars, tilerVars, packVars,
                   sinkVars, disposeLog, webgl>>

\* Lines 119-127: the loop test and the per-face progress event; a sink that
\* throws leaves the function at once.
ReprojFaceProgress ==
    /\ pc = "reprojFace"
    /\ faceI < Len(FACE_CONFIGS)
    /\ progressLog' = Append(progressLog,
           ProgressInfo("reprojection", faceI, Len(FACE_CONFIGS),
                        FACE_CONFIGS[faceI + 1], 0))
    /\ \E r \in Broadcast :
          /\ lastEmit' = r.emission
          /\ IF r.error # NoError
             THEN pc' = "reprojThrew" /\ error' = r.error
             ELSE pc' = "reprojRender" /\ error' = error
    /\ UNCHANGED <<instVars, callVars, dimVars, tilerVars, reprojVars,
                   packVars, errorEmits, uncaught>>

\* Lines 129-170: render into the target, read the pixels back, flip them into
\* the face canvas and push the face.  Render and readback may throw, and
\* ctx.createImageData(0, 0) always throws.
ReprojRenderFace ==
    /\ pc = "reprojRender"
    /\ \E ok \in (IF cubeResolution >= 1 THEN BOOLEAN ELSE {FALSE}) :
          IF ok
          THEN /\ faces' = Append(faces, [name |-> FACE_CONFIGS[faceI + 1],
                                          resolution |-> cubeResolution])
               /\ faceI' = faceI + 1
               /\ pc' = "reprojFace"
               /\ error' = error
          ELSE /\ pc' = "reprojThrew"
               /\ error' = "RenderError"
               /\ UNCHANGED <<faces, faceI>>
    /\ UNCHANGED <<instVars, callVars, dimVars, tilerVars, packVars, sinkVars,
                   memory, live, disposeLog, webgl, calls>>

\* Lines 173-185: after the loop the completion event, then this.dispose()
\* and the return of the faces.
ReprojComplete ==
    /\ pc = "reprojFace"
    /\ faceI >= Len(FACE_CONFIGS)
    /\ progressLog' = Append(progressLog,
           ProgressInfo("reprojection", 1, 1, "", 0))
    /\ \E r \in Broadcast :
          /\ lastEmit' = r.emission
          /\ IF r.error # NoError
             THEN /\ pc' = "reprojThrew"
                  /\ error' = r.error
                  /\ UNCHANGED <<memory, live, disposeLog, webgl, calls>>
             ELSE /\ disposeLog' = disposeLog \o DisposeOrder(memory)
                  /\ live' = live \ Tracked(memory)
                  /\ memory' = disposeAll(memory)
                  /\ webgl' = LostWebGL
                  /\ calls' = Released(calls, memory, {})
                  /\ pc' = "reprojected"
                  /\ error' = error
    /\ UNCHANGED <<instVars, callVars, dimVars, tilerVars, packVars,
                   errorEmits, uncaught, faces, faceI>>

Reproject ==
    \/ ReprojCreateRenderer
    \/ ReprojValidate
    \/ ReprojBuildScene
    \/ ReprojFaceProgress
    \/ ReprojRenderFace
    \/ ReprojComplete

\* ------------------------------------- specification of the reprojector

\* new Reprojector(maxTextureSize).reprojectToCubeFaces(image, cubeResolution,
\* onProgress), on a platform with some texture limit.
InitReproj ==
    /\ pc = "reprojCreate"
    /\ error = NoError
    /\ entry = "reprojector"
    /\ NoInstance
    /\ maxTextureSize \in (1..MaxTextureLimit) \cup {DEFAULT_MAX_TEXTURE_SIZE}
    /\ glMaxTextureSize \in 1..MaxTextureLimit
    /\ CallIdle
    /\ onProgress \in CallbackKinds
    /\ imageFormat = "jpeg"
    /\ cubeResolution \in 0..MaxCubeResolution
    /\ tileSize = 1
    /\ maxLevel = 0
    /\ ReprojIdle
    /\ TilerIdle
    /\ PackIdle
    /\ SinkIdle

SpecReproj == InitReproj /\ [][Reproject]_vars

\* ---------------------------------- specification of the MemoryManager

\* The resources a caller of a MemoryManager has at hand, by kind.
Textures == {"texture1", "texture2"}

Geometries == {"geometry1"}

Materials == {"material1"}

RenderTargets == {"renderTarget1"}

Renderers == {"renderer1", "renderer2"}

\* A resource that can still be handed to the tracker: one that no
\* disposeAll has disposed.
Usable(r) == r \notin Range(disposeLog)

\* The variables no MemoryManager call touches.
beyondMemory ==
    <<pc, instVars, callVars, dimVars, tilerVars, packVars, sinkVars, faces,
      faceI>>

\* trackTexture(texture): the set takes the texture, which is returned.
TrackTextureCall ==
    /\ entry = "memory"
    /\ \E r \in Textures :
          /\ Usable(r)
          /\ memory' = trackTexture(memory, r)
          /\ live' = live \cup {r}
          /\ calls' = Returned(calls, "trackTexture", r)
    /\ UNCHANGED <<beyondMemory, error, disposeLog, webgl>>

\* trackGeometry(geometry)
TrackGeometryCall ==
    /\ entry = "memory"
    /\ \E r \in Geometries :
          /\ Usable(r)
          /\ memory' = trackGeometry(memory, r)
          /\ live' = live \cup {r}
          /\ calls' = Returned(calls, "trackGeometry", r)
    /\ UNCHANGED <<beyondMemory, error, disposeLog, webgl>>

\* trackMaterial(material)
TrackMaterialCall ==
    /\ entry = "memory"
    /\ \E r \in Materials :
          /\ Usable(r)
          /\ memory' = trackMaterial(memory, r)
          /\ live' = live \cup {r}
          /\ calls' = Returned(calls, "trackMaterial", r)
    /\ UNCHANGED <<beyondMemory, error, disposeLog, webgl>>

\* trackRenderTarget(target)
TrackRenderTargetCall ==
    /\ entry = "memory"
    /\ \E r \in RenderTargets :
          /\ Usable(r)
          /\ memory' = trackRenderTarget(memory, r)
          /\ live' = live \cup {r}
          /\ calls' = Returned(calls, "trackRenderTarget", r)
    /\ UNCHANGED <<beyondMemory, error, disposeLog, webgl>>

\* setRenderer(renderer), of a renderer just created on a canvas; a renderer
\* set before is no longer referenced.
SetRendererCall ==
    /\ entry = "memory"
    /\ \E r \in Renderers :
          /\ Usable(r)
          /\ memory' = setRenderer(memory, r)
          /\ live' = live \cup {r}
          /\ webgl' = WebGLOf(MaxCubeResolution)
          /\ calls' = Returned(calls, "setRenderer", "undefined")
    /\ UNCHANGED <<beyondMemory, error, disposeLog>>

\* disposeAll(), with some of the tracked resources throwing from dispose().
DisposeAllCall ==
    /\ entry = "memory"
    /\ calls.releases < MaxReleases
    /\ \E faulty \in SUBSET Tracked(memory) :
          LET raised == DisposeFailsAt(memory, faulty) # 0
          IN  /\ disposeLog' = disposeLog \o DisposedBefore(memory, faulty)
              /\ live' = live \ Range(DisposedBefore(memory, faulty))
              /\ memory' = disposeAllWith(memory, faulty)
              /\ webgl' = IF memory.renderer # NULL /\ ~raised
                          THEN LostWebGL
                          ELSE webgl
              /\ calls' = Released(calls, memory, faulty)
              /\ error' = IF raised THEN "DisposeError" ELSE error
    /\ UNCHANGED beyondMemory

MemoryCalls ==
    \/ TrackTextureCall
    \/ TrackGeometryCall
    \/ TrackMaterialCall
    \/ TrackRenderTargetCall
    \/ SetRendererCall
    \/ DisposeAllCall

\* new MemoryManager()
InitMemory ==
    /\ pc = "idle"
    /\ error = NoError
    /\ entry = "memory"
    /\ NoInstance
    /\ maxTextureSize = DEFAULT_MAX_TEXTURE_SIZE
    /\ glMaxTextureSize = DEFAULT_MAX_TEXTURE_SIZE
    /\ CallIdle
    /\ onProgress = "none"
    /\ imageFormat = "jpeg"
    /\ cubeResolution = 0
    /\ tileSize = 1
    /\ maxLevel = 0
    /\ ReprojIdle
    /\ TilerIdle
    /\ PackIdle
    /\ SinkIdle

SpecMemory == InitMemory /\ [][MemoryCalls]_vars
\* ---------------------------------------------------- generateTilePyramid

\* A tile as an encode in flight knows it.
TileId(faceName, lvl, c) == [face |-> faceName, level |-> lvl, x |-> c.x, y |-> c.y]

\* `for (level = maxLevel; level >= 1; level--)` runs its body (NaN >= 1 is
\* false).
LevelInRange(lvl) == lvl # NaN /\ lvl >= 1

\* Mutant: the levels are counted upwards from level 1.
TilingProgressAscending(fIndex, mLevel, lvl, completed, total, totalFaces) ==
    <<(fIndex * mLevel + (lvl - 1)) * total + completed,
      total * mLevel * totalFaces>>

\* The overall progress of generateTilePyramid's callback,
\* (faceIndex + (maxLevel - level + completed / total) / maxLevel) / totalFaces,
\* as numerator and denominator.
TilingProgress(fIndex, mLevel, lvl, completed, total, totalFaces) ==
    <<(fIndex * mLevel + (mLevel - lvl)) * total + completed,
      total * mLevel * totalFaces>>

\* Mutant: the failure is noted and the batch goes on waiting for its encodes.
TilerRetries(err) ==
    /\ pc' = "awaitBatch"
    /\ error' = err
    /\ UNCHANGED <<tiles, faceTiles, batchResults, inFlight>>

\* An exception leaves generateTilePyramid: its lists are dropped with its
\* frames and nothing awaits the encodes that are left.
TilerThrows(err) ==
    /\ pc' = "tilerThrew"
    /\ error' = err
    /\ tiles' = <<>>
    /\ faceTiles' = <<>>
    /\ batchResults' = <<>>
    /\ inFlight' = {}

\* generateTilePyramid lines 42-57: the next face; generateFaceTiles lines
\* 117-121 start on its canvas.
PyramidNextFace ==
    /\ pc = "faceLoop"
    /\ faceIndex < Len(faces)
    /\ faceTiles' = <<>>
    /\ level' = maxLevel
    /\ currentResolution' = faces[faceIndex + 1].resolution
    /\ pc' = "levelLoop"
    /\ UNCHANGED <<error, instVars, callVars, dimVars, reprojVars, packVars,
                   sinkVars, tiles,
                   faceIndex, batchI, inFlight, batchResults>>

\* generateFaceTiles lines 123-137: a level starts; below maxLevel the raster
\* of the previous level is halved first.
FaceLevelStart ==
    /\ pc = "levelLoop"
    /\ LevelInRange(level)
    /\ currentResolution' = IF level < maxLevel
                            THEN HalveResolution(currentResolution)
                            ELSE currentResolution
    /\ batchI' = 0
    /\ pc' = "batchLoop"
    /\ UNCHANGED <<error, instVars, callVars, dimVars, reprojVars, packVars,
                   sinkVars, tiles,
                   faceIndex, faceTiles, level, inFlight, batchResults>>

\* generateFaceTiles lines 140-152: the next batch; buildTile starts the
\* encode of each of its tiles and Promise.all awaits them.
BatchStart ==
    /\ pc = "batchLoop"
    /\ LET coords == TileCoords(currentResolution, tileSize)
           batch == BatchSlice(coords, batchI)
       IN  /\ batchI < Len(coords)
           /\ inFlight' = inFlight \cup
                  {TileId(faces[faceIndex + 1].name, level, batch[k]) :
                       k \in 1..Len(batch)}
           /\ batchResults' = [k \in 1..Len(batch) |-> NoTile]
    /\ pc' = "awaitBatch"
    /\ UNCHANGED <<error, instVars, callVars, dimVars, reprojVars, packVars,
                   sinkVars, tiles,
                   faceIndex, faceTiles, level, currentResolution, batchI>>

\* extractTile: one encode of the batch settles.  A resolved encode hands its
\* tile to Promise.all; a rejected one rejects Promise.all and with it
\* generateFaceTiles and generateTilePyramid.
EncodeSettle ==
    /\ pc = "awaitBatch"
    /\ \E t \in inFlight, ok \in BOOLEAN :
          LET batch == BatchSlice(TileCoords(currentResolution, tileSize), batchI)
          IN  IF ok
              THEN /\ batchResults' =
                          [batchResults EXCEPT
                              ![SettleSlot(batch, batchResults, t)] =
                                  buildTile(currentResolution, tileSize, t.level,
                                            t.face, t.x, t.y, imageFormat)]
                   /\ inFlight' = inFlight \ {t}
                   /\ UNCHANGED <<pc, error, tiles, faceTiles>>
              ELSE TilerThrows("EncodeError")
    /\ UNCHANGED <<instVars, callVars, dimVars, reprojVars, packVars, sinkVars,
                   faceIndex, level,
                   currentResolution, batchI>>

\* generateFaceTiles lines 154-160: the batch has resolved; its tiles are
\* pushed, the progress of the level is reported and the loop steps on.
BatchDone ==
    /\ pc = "awaitBatch"
    /\ BatchResolved(inFlight, batchResults)
    /\ LET total == Len(TileCoords(currentResolution, tileSize))
           completedInLevel == Min(batchI + TILE_BATCH_SIZE, total)
           p == TilingProgress(faceIndex, maxLevel, level, completedInLevel,
                               total, Len(faces))
       IN  progressLog' = Append(progressLog,
               ProgressInfo("tiling", p[1], p[2], faces[faceIndex + 1].name, level))
    /\ \E r \in Broadcast :
          /\ lastEmit' = r.emission
          /\ IF r.error # NoError
             THEN /\ TilerThrows(r.error)
                  /\ UNCHANGED batchI
             ELSE /\ faceTiles' = faceTiles \o batchResults
                  /\ batchResults' = <<>>
                  /\ batchI' = batchI + TILE_BATCH_SIZE
                  /\ pc' = "batchLoop"
                  /\ UNCHANGED <<error, tiles, inFlight>>
    /\ UNCHANGED <<instVars, callVars, dimVars, reprojVars, packVars,
                   errorEmits, uncaught, faceIndex,
                   level, currentResolution>>

\* generateFaceTiles lines 140, 162-163: no batch is left; yieldToGC is
\* awaited.
LevelTilesDone ==
    /\ pc = "batchLoop"
    /\ batchI >= Len(TileCoords(currentResolution, tileSize))
    /\ pc' = "yield"
    /\ UNCHANGED <<error, instVars, callVars, dimVars, reprojVars, tilerVars,
                   packVars, sinkVars>>

\* generateFaceTiles lines 123, 163: the yield is over; level--.
LevelYield ==
    /\ pc = "yield"
    /\ level' = level - 1
    /\ pc' = "levelLoop"
    /\ UNCHANGED <<error, instVars, callVars, dimVars, reprojVars, packVars,
                   sinkVars, tiles,
                   faceIndex, faceTiles, currentResolution, batchI, inFlight,
                   batchResults>>

\* generateFaceTiles line 166, generateTilePyramid lines 58-59: the face is
\* done; its tiles are pushed and faceIndex++.
FaceDone ==
    /\ pc = "levelLoop"
    /\ ~LevelInRange(level)
    /\ tiles' = tiles \o faceTiles
    /\ faceTiles' = <<>>
    /\ faceIndex' = faceIndex + 1
    /\ pc' = "faceLoop"
    /\ UNCHANGED <<error, instVars, callVars, dimVars, reprojVars, packVars,
                   sinkVars, level,
                   currentResolution, batchI, inFlight, batchResults>>

\* generateTilePyramid lines 62-68: the completion event and the return.
PyramidDone ==
    /\ pc = "faceLoop"
    /\ faceIndex >= Len(faces)
    /\ progressLog' = Append(progressLog, ProgressInfo("tiling", 1, 1, "", 0))
    /\ \E r \in Broadcast :
          /\ lastEmit' = r.emission
          /\ IF r.error # NoError
             THEN TilerThrows(r.error)
             ELSE /\ pc' = "tiled"
                  /\ UNCHANGED <<error, tiles, faceTiles, batchResults,
                                 inFlight>>
    /\ UNCHANGED <<instVars, callVars, dimVars, reprojVars, packVars,
                   errorEmits, uncaught, faceIndex,
                   level, currentResolution, batchI>>

TilePyramid ==
    \/ PyramidNextFace
    \/ FaceLevelStart
    \/ BatchStart
    \/ EncodeSettle
    \/ BatchDone
    \/ LevelTilesDone
    \/ LevelYield
    \/ FaceDone
    \/ PyramidDone

\* ------------------------------------------- specification of the tiler

\* The six faces reprojectToCubeFaces returns at a resolution.
CubeFaces(res) ==
    [k \in 1..Len(FACE_CONFIGS) |-> [name |-> FACE_CONFIGS[k], resolution |-> res]]

\* new Tiler(quality, imageFormat).generateTilePyramid(cubeFaces, tileSize,
\* maxLevel, onProgress) on the faces of a reprojection.
InitTiler ==
    /\ pc = "faceLoop"
    /\ error = NoError
    /\ entry = "tiler"
    /\ NoInstance
    /\ maxTextureSize = DEFAULT_MAX_TEXTURE_SIZE
    /\ glMaxTextureSize = DEFAULT_MAX_TEXTURE_SIZE
    /\ CallIdle
    /\ onProgress = "faulty"
    /\ imageFormat \in {"jpeg", "webp"}
    /\ cubeResolution \in 0..MaxTilerResolution
    /\ tileSize \in 1..MaxTilerTileSize
    /\ maxLevel \in (0..MaxTilerLevel)
                      \cup {calculateMaxLevel(cubeResolution, tileSize)}
    /\ memory = EmptyMemory
    /\ live = {}
    /\ disposeLog = <<>>
    /\ webgl = NoWebGL
    /\ calls = NoCall
    /\ faces = CubeFaces(cubeResolution)
    /\ faceI = Len(FACE_CONFIGS)
    /\ TilerIdle
    /\ PackIdle
    /\ SinkIdle

SpecTiler == InitTiler /\ [][TilePyramid]_vars

\* ----------------------------------------------- the inputs of process()

\* The configs handed to process(): each field missing, valid or invalid.
SourceImages == {"", "url", "blob"}

Outputs == {"", "gif", "zip", "raw", "stream"}

Qualities == {Undefined, <<0 - 1>>, <<100>>, <<101>>}

ConfigTileSizes == {Undefined, <<0>>, <<260>>}

ConfigResolutions == {Undefined, <<0>>, <<3>>, <<6>>}

ConfigLevels == {Undefined, <<0>>, <<1>>, <<3>>}

\* naturalWidth of the sources: too narrow for a face, and the narrowest ones
\* that give faces of 8 and of 520.
ImageWidths == {0, 26, 1634}

\* The values each optional field can be given.
OptionSettings ==
    {<<"quality", q>> : q \in Qualities \ {Undefined}}
    \cup {<<"tileSize", t>> : t \in ConfigTileSizes \ {Undefined}}
    \cup {<<"fallbackTiles", <<TRUE>>>>, <<"imageFormat", <<"webp">>>>,
          <<"onProgress", "faulty">>}
    \cup {<<"cubeResolution", r>> : r \in ConfigResolutions \ {Undefined}}
    \cup {<<"maxLevel", l>> : l \in ConfigLevels \ {Undefined}}

RECURSIVE ConfigsWith(_)
\* The configs that give at most n of the optional fields.
ConfigsWith(n) ==
    IF n = 0
    THEN {BareConfig(source, mode) : source \in SourceImages, mode \in Outputs}
    ELSE LET fewer == ConfigsWith(n - 1)
         IN  fewer \cup
             {[cfg EXCEPT ![setting[1]] = setting[2]] :
                 cfg \in fewer,
                 setting \in OptionSettings}

Configs == ConfigsWith(MaxOptions)
\* ------------------------------------------------- PannellumTiler.process

\* process lines 151-169: allTiles, the descriptor and the metadata (totalSize,
\* a sum of blob sizes, is left out).
AllTiles == tiles \o fallbackTilesList

ConfigJson ==
    generateConfig(tileSize, maxLevel, cubeResolution, imageFormat, fallbackTiles)

Metadata ==
    [totalTiles |-> Len(AllTiles), maxLevel |-> maxLevel,
     cubeResolution |-> cubeResolution, tileSize |-> tileSize,
     faces |-> FACE_CONFIGS]

\* What a call leaves behind of the call before it.
ResetCall ==
    /\ cubeResolution' = 0
    /\ maxLevel' = 0
    /\ memory' = EmptyMemory
    /\ live' = {}
    /\ disposeLog' = <<>>
    /\ webgl' = NoWebGL
    /\ calls' = NoCall
    /\ faces' = <<>>
    /\ faceI' = 0
    /\ tiles' = <<>>
    /\ faceIndex' = 0
    /\ faceTiles' = <<>>
    /\ level' = 0
    /\ currentResolution' = 0
    /\ batchI' = 0
    /\ inFlight' = {}
    /\ batchResults' = <<>>
    /\ fallbackTilesList' = <<>>
    /\ files' = {}
    /\ zipI' = 0
    /\ result' = NoResult
    /\ stream' = NoStream
    /\ image' = NoImage
    /\ errorEmits' = 0
    /\ uncaught' = 0

\* process lines 67-104: the disposed check and validateConfig, whose throw
\* rejects the promise outside the try block; then the destructuring, the
\* first loading event and the call of loadImage.
Process(cfg) ==
    /\ pc = "idle"
    /\ entry = "process"
    /\ ResetCall
    /\ config' = cfg
    /\ LET failure == EntryCheck(disposed, cfg)
       IN  IF failure # "none"
           THEN /\ outcome' = "rejected"
                /\ runs' = runs
                /\ error' = failure
                /\ pc' = "idle"
                /\ sourceImage' = ""
                /\ output' = ""
                /\ tileSize' = 0
                /\ fallbackTiles' = FALSE
                /\ imageFormat' = "jpeg"
                /\ onProgress' = "none"
                /\ cfgCubeResolution' = Undefined
                /\ cfgMaxLevel' = Undefined
                /\ loadStarted' = FALSE
                /\ progressLog' = <<>>
                /\ lastEmit' = NoEmit
           ELSE /\ runs < MaxRuns
                /\ runs' = runs + 1
                /\ outcome' = "pending"
                /\ sourceImage' = cfg.sourceImage
                /\ output' = cfg.output
                /\ tileSize' = OrElse(cfg.tileSize, DEFAULT_TILE_SIZE)
                /\ fallbackTiles' = OrElse(cfg.fallbackTiles, FALSE)
                /\ imageFormat' = OrElse(cfg.imageFormat, "jpeg")
                /\ onProgress' = cfg.onProgress
                /\ cfgCubeResolution' = cfg.cubeResolution
                /\ cfgMaxLevel' = cfg.maxLevel
                /\ progressLog' = <<ProgressInfo("loading", 0, 1, "", 0)>>
                /\ \E r \in BroadcastTo(cfg.onProgress, NoEmit) :
                      /\ lastEmit' = r.emission
                      /\ IF r.error # NoError
                         THEN /\ pc' = "threw"
                              /\ error' = r.error
                              /\ loadStarted' = FALSE
                         ELSE /\ pc' = "loading"
                              /\ error' = NoError
                              /\ loadStarted' = TRUE
    /\ UNCHANGED <<entry, disposed, listeners, maxTextureSize, glMaxTextureSize>>

\* image-loader lines of xhr.onprogress: a URL source reports its download;
\* what the sink throws there stays in the event handler.
LoadProgress ==
    /\ pc = "loading"
    /\ sourceImage = "url"
    /\ Len(progressLog) <= MaxLoadEvents
    /\ progressLog' = Append(progressLog, ProgressInfo("loading", 1, 2, "", 0))
    /\ \E r \in Broadcast :
          /\ lastEmit' = r.emission
          /\ uncaught' = IF r.error # NoError THEN uncaught + 1 ELSE uncaught
    /\ UNCHANGED <<pc, error, instVars, callVars, dimVars, reprojVars,
                   tilerVars, packVars, errorEmits>>

\* loadImage rejects: HTTP status, network error or a source that does not
\* decode.
LoadFail ==
    /\ pc = "loading"
    /\ pc' = "threw"
    /\ error' = "LoadError"
    /\ UNCHANGED <<instVars, callVars, dimVars, reprojVars, tilerVars,
                   packVars, sinkVars>>

\* process lines 98-134: loadImage resolves; the loaded event, the dimensions,
\* new Reprojector(...) and the call of reprojectToCubeFaces.
LoadDone ==
    /\ pc = "loading"
    /\ progressLog' = Append(progressLog, ProgressInfo("loading", 1, 1, "", 0))
    /\ \E r \in Broadcast :
          /\ lastEmit' = r.emission
          /\ IF r.error # NoError
             THEN /\ pc' = "threw"
                  /\ error' = r.error
                  /\ UNCHANGED <<cubeResolution, maxLevel>>
             ELSE /\ \E naturalWidth \in ImageWidths :
                        cubeResolution' =
                            OrElse(cfgCubeResolution,
                                   calculateCubeResolution(naturalWidth,
                                                           naturalWidth \div 2))
                  /\ maxLevel' =
                        OrElse(cfgMaxLevel,
                               calculateMaxLevel(cubeResolution', tileSize))
                  /\ pc' = "reprojCreate"
                  /\ error' = error
    /\ UNCHANGED <<instVars, config, outcome, sourceImage, output,
                   fallbackTiles, cfgCubeResolution, cfgMaxLevel, image, loadStarted,
                   onProgress, imageFormat, tileSize, reprojVars, tilerVars,
                   packVars, errorEmits, uncaught>>

\* process lines 130-143: the faces are back; new Tiler(quality, imageFormat)
\* and the call of generateTilePyramid.
StartTiling ==
    /\ pc = "reprojected"
    /\ entry = "process"
    /\ tiles' = <<>>
    /\ faceIndex' = 0
    /\ pc' = "faceLoop"
    /\ UNCHANGED <<error, instVars, callVars, dimVars, reprojVars, packVars,
                   sinkVars, faceTiles, level, currentResolution, batchI,
                   inFlight, batchResults>>

\* process lines 146-149: the pyramid is back; with fallbackTiles the call of
\* generateFallbackTiles.
StartFallback ==
    /\ pc = "tiled"
    /\ entry = "process"
    /\ fallbackTilesList' = <<>>
    /\ pc' = IF fallbackTiles THEN "fallback" ELSE "package"
    /\ UNCHANGED <<error, instVars, callVars, dimVars, reprojVars, tilerVars,
                   sinkVars, files, zipI, result, stream>>

\* generateFallbackTiles: the encode of the next face's tile settles.
FallbackEncode ==
    /\ pc = "fallback"
    /\ Len(fallbackTilesList) < Len(faces)
    /\ \E ok \in BOOLEAN :
          IF ok
          THEN /\ fallbackTilesList' =
                      Append(fallbackTilesList,
                             FallbackTile(faces[Len(fallbackTilesList) + 1],
                                          imageFormat, FALLBACK_SIZE))
               /\ UNCHANGED <<pc, error>>
          ELSE /\ fallbackTilesList' = <<>>
               /\ pc' = "threw"
               /\ error' = "EncodeError"
    /\ UNCHANGED <<instVars, callVars, dimVars, reprojVars, tilerVars,
                   sinkVars, files, zipI, result, stream>>

\* generateFallbackTiles: every face has its tile; the list is returned.
FallbackDone ==
    /\ pc = "fallback"
    /\ Len(fallbackTilesList) >= Len(faces)
    /\ pc' = "package"
    /\ UNCHANGED <<error, instVars, callVars, dimVars, reprojVars, tilerVars,
                   packVars, sinkVars>>

\* Mutant: the tiles are yielded from the end of the list.
StreamItemAtBackwards(tileList, configJson, n) ==
    IF n = 0
    THEN [type |-> "config", path |-> CONFIG_PATH, blob |-> configJson]
    ELSE LET t == tileList[Len(tileList) + 1 - n]
         IN  [type |-> "tile", path |-> t.path, blob |-> t.blob,
              level |-> t.level, face |-> t.face, x |-> t.x, y |-> t.y]

\* createTileStream lines 313-330: the item the generator yields when it is
\* resumed for the n-th time, n counted from 0: the descriptor, then the tiles.
StreamItemAt(tileList, configJson, n) ==
    IF n = 0
    THEN [type |-> "config", path |-> CONFIG_PATH, blob |-> configJson]
    ELSE [type |-> "tile", path |-> tileList[n].path, blob |-> tileList[n].blob,
          level |-> tileList[n].level, face |-> tileList[n].face,
          x |-> tileList[n].x, y |-> tileList[n].y]

\* createTileStream lines 308-311: calling the generator function runs none
\* of its body; the generator starts suspended and keeps the list it was given.
createTileStream(tileList, configJson) ==
    [state |-> "suspended", tiles |-> tileList, json |-> configJson,
     resumed |-> 0, yielded |-> <<>>, drained |-> 0]

\* process lines 151-186: raw and stream results are built at once;
\* buildZipResult reports the start of the packaging and createZipOutput puts
\* config.json into its file map.
Package ==
    /\ pc = "package"
    /\ IF output = "zip"
       THEN /\ progressLog' =
                   Append(progressLog, ProgressInfo("packaging", 0, 1, "", 0))
            /\ \E r \in Broadcast :
                  /\ lastEmit' = r.emission
                  /\ IF r.error # NoError
                     THEN /\ pc' = "threw"
                          /\ error' = r.error
                          /\ UNCHANGED <<files, zipI>>
                     ELSE /\ files' = PutFile({}, CONFIG_PATH, ConfigJson)
                          /\ zipI' = 0
                          /\ pc' = "zipping"
                          /\ error' = error
            /\ UNCHANGED <<outcome, result, stream>>
       ELSE /\ result' = [kind |-> output, config |-> ConfigJson,
                          tiles |-> AllTiles, metadata |-> Metadata]
            /\ stream' = IF output = "stream"
                         THEN createTileStream(AllTiles, ConfigJson)
                         ELSE NoStream
            /\ outcome' = "resolved"
            /\ pc' = "idle"
            /\ UNCHANGED <<error, files, zipI, progressLog, lastEmit>>
    /\ UNCHANGED <<instVars, config, sourceImage, output, fallbackTiles,
                   cfgCubeResolution, cfgMaxLevel, image, loadStarted, onProgress,
                   imageFormat, dimVars, reprojVars, tilerVars,
                   fallbackTilesList, errorEmits, uncaught>>

\* createZipOutput, the loop: the next tile's bytes are read and stored under
\* its path, then the share of the tiles done is reported.
ZipAddTile ==
    /\ pc = "zipping"
    /\ zipI < Len(AllTiles)
    /\ files' = PutFile(files, AllTiles[zipI + 1].path, AllTiles[zipI + 1].blob)
    /\ progressLog' =
           Append(progressLog,
                  ProgressInfo("packaging", zipI + 1, Len(AllTiles), "", 0))
    /\ \E r \in Broadcast :
          /\ lastEmit' = r.emission
          /\ IF r.error # NoError
             THEN pc' = "threw" /\ error' = r.error /\ zipI' = zipI
             ELSE pc' = pc /\ error' = error /\ zipI' = zipI + 1
    /\ UNCHANGED <<instVars, callVars, dimVars, reprojVars, tilerVars,
                   fallbackTilesList, result, stream, errorEmits, uncaught>>

\* createZipOutput, zip(): the archive is built or the build fails; on success
\* buildZipResult reports the completion and returns blob and metadata.
ZipFinish ==
    /\ pc = "zipping"
    /\ zipI >= Len(AllTiles)
    /\ \E ok \in BOOLEAN :
          IF ok
          THEN /\ progressLog' =
                      Append(progressLog, ProgressInfo("packaging", 1, 1, "", 0))
               /\ \E r \in Broadcast :
                     /\ lastEmit' = r.emission
                     /\ IF r.error # NoError
                        THEN /\ pc' = "threw"
                             /\ error' = r.error
                             /\ UNCHANGED <<outcome, result>>
                        ELSE /\ result' = [kind |-> "zip", blob |-> files,
                                           metadata |-> Metadata]
                             /\ outcome' = "resolved"
                             /\ pc' = "idle"
                             /\ error' = error
          ELSE /\ pc' = "threw"
               /\ error' = "ZipError"
               /\ UNCHANGED <<outcome, result, progressLog, lastEmit>>
    /\ UNCHANGED <<instVars, config, sourceImage, output, fallbackTiles,
                   cfgCubeResolution, cfgMaxLevel, image, loadStarted, onProgress,
                   imageFormat, dimVars, reprojVars, tilerVars,
                   fallbackTilesList, files, zipI, stream, errorEmits, uncaught>>

\* process lines 187-191: the catch block emits 'error' and rethrows; what an
\* emit lets through replaces the error in flight.
ProcessCatch ==
    /\ pc \in {"threw", "reprojThrew", "tilerThrew"}
    /\ entry = "process"
    /\ \E e \in Emissions("error") :
          /\ lastEmit' = e
          /\ error' = IF e.propagated THEN "ListenerError" ELSE error
    /\ errorEmits' = errorEmits + 1
    /\ outcome' = "rejected"
    /\ pc' = "idle"
    /\ UNCHANGED <<instVars, config, sourceImage, output, fallbackTiles,
                   cfgCubeResolution, cfgMaxLevel, image, loadStarted, onProgress,
                   imageFormat, dimVars, reprojVars, tilerVars, packVars,
                   progressLog, uncaught>>

\* result.tiles.next() of a stream result, as a for-await loop or a caller
\* makes it: the generator yields its next item, or runs off the end of its
\* body and is done; a done generator answers every later next() with
\* { done: true } and no item.
StreamNext ==
    /\ pc = "idle"
    /\ stream.state # "none"
    /\ IF stream.state = "done"
       THEN /\ stream.drained < MaxDrainedCalls
            /\ stream' = [stream EXCEPT !.drained = @ + 1]
       ELSE IF stream.resumed <= Len(stream.tiles)
            THEN stream' =
                     [stream EXCEPT
                         !.yielded = Append(@, StreamItemAt(stream.tiles,
                                                            stream.json,
                                                            stream.resumed)),
                         !.resumed = @ + 1]
            ELSE stream' = [stream EXCEPT !.state = "done"]
    /\ UNCHANGED <<pc, error, instVars, callVars, dimVars, reprojVars,
                   tilerVars, fallbackTilesList, files, zipI, result,
                   sinkVars>>

\* The stages of a running process() call.
Pipeline ==
    \/ LoadProgress
    \/ LoadFail
    \/ LoadDone
    \/ Reproject
    \/ StartTiling
    \/ TilePyramid
    \/ StartFallback
    \/ FallbackEncode
    \/ FallbackDone
    \/ Package
    \/ ZipAddTile
    \/ ZipFinish
    \/ ProcessCatch

\* ----------------------------------------------------- on / off / dispose

\* Where code outside the pipeline can run: the call awaits, or a callback
\* has just been handed an event.
Yielded ==
    pc \in {"idle", "loading", "reprojCreate", "reprojRender", "reprojected",
            "batchLoop", "awaitBatch", "yield", "tiled", "fallback", "zipping"}

ListenerCount == Len(listeners.progress) + Len(listeners.error)

\* on(event, callback)
On(event, cb) ==
    /\ Yielded
    /\ entry = "process"
    /\ ListenerCount < MaxListeners
    /\ listeners' = [listeners EXCEPT ![event] = AddListener(@, cb)]
    /\ listeners' # listeners
    /\ UNCHANGED <<pc, error, entry, disposed, maxTextureSize,
                   glMaxTextureSize, runs, callVars, dimVars, reprojVars, tilerVars,
                   packVars, sinkVars>>

\* off(event, callback)
Off(event, cb) ==
    /\ Yielded
    /\ entry = "process"
    /\ listeners' = [listeners EXCEPT ![event] = RemoveListener(@, cb)]
    /\ listeners' # listeners
    /\ UNCHANGED <<pc, error, entry, disposed, maxTextureSize,
                   glMaxTextureSize, runs, callVars, dimVars, reprojVars, tilerVars,
                   packVars, sinkVars>>

\* Mutant: dispose() marks the instance and keeps the registry.
DisposeKeepingListeners ==
    /\ Yielded
    /\ entry = "process"
    /\ disposed' = TRUE
    /\ UNCHANGED <<pc, error, entry, listeners, maxTextureSize,
                   glMaxTextureSize, runs, callVars, dimVars, reprojVars,
                   tilerVars, packVars, sinkVars>>

\* dispose()
Dispose ==
    /\ Yielded
    /\ entry = "process"
    /\ disposed' = TRUE
    /\ listeners' = NoListeners
    /\ UNCHANGED <<pc, error, entry, maxTextureSize, glMaxTextureSize, runs,
                   callVars, dimVars, reprojVars, tilerVars, packVars,
                   sinkVars>>
\* ------------------------------------------- specification of process()

\* new PannellumTiler(options), before any call.
InitInstance ==
    /\ pc = "idle"
    /\ error = NoError
    /\ entry = "process"
    /\ disposed = FALSE
    /\ listeners = NoListeners
    /\ runs = 0
    /\ glMaxTextureSize = DEFAULT_MAX_TEXTURE_SIZE
    /\ CallIdle
    /\ onProgress = "none"
    /\ imageFormat = "jpeg"
    /\ cubeResolution = 0
    /\ tileSize = 0
    /\ maxLevel = 0
    /\ ReprojIdle
    /\ TilerIdle
    /\ PackIdle
    /\ SinkIdle

Init ==
    /\ InitInstance
    /\ maxTextureSize \in {8, DEFAULT_MAX_TEXTURE_SIZE}

\* process(config) with any config.
ProcessCall == \E cfg \in Configs : Process(cfg)

\* dispose() between calls.
DisposeIdle == pc = "idle" /\ Dispose

Next == ProcessCall \/ Pipeline \/ DisposeIdle \/ StreamNext

Spec == Init /\ [][Next]_vars

\* ------------------------------ specification of process() with listeners

\* Valid configs of a one-level pyramid, with and without a progress callback
\* and fallback tiles.
EventConfigs ==
    {[BareConfig("url", mode) EXCEPT !.onProgress = cb, !.fallbackTiles = fb,
                                     !.cubeResolution = <<6>>] :
        mode \in {"raw", "zip"},
        cb \in {"none", "faulty"}, fb \in {Undefined, <<TRUE>>}}

InitEvents ==
    /\ InitInstance
    /\ maxTextureSize = DEFAULT_MAX_TEXTURE_SIZE

ProcessEvents == \E cfg \in EventConfigs : Process(cfg)

Register == \E event \in {"progress", "error"}, cb \in ListenerKinds : On(event, cb)

Unregister == \E event \in {"progress", "error"}, cb \in ListenerKinds : Off(event, cb)

NextEvents == ProcessEvents \/ Pipeline \/ Register \/ Unregister \/ Dispose

SpecEvents == InitEvents /\ [][NextEvents]_vars

\* ------------------------------------------------------------------ claims

\* C1: whenever a reprojectToCubeFaces call ends, with the six faces or with
\* an error, releaseAll() has run before the result or the error reaches the
\* caller: the tracker holds no texture, geometry, material, render target or
\* renderer (and no rendering resource it created is still allocated).
C1_ReleasedWhenCallEnds ==
    (pc \in {"reprojected", "reprojThrew"}) =>
        /\ memory = EmptyMemory
        /\ Tracked(memory) = {}
        /\ live = {}

\* C2: when cubeResolution > min(configured maxTextureSize, platform maximum)
\* the call fails with the resource-limit error and, when it is raised, no
\* rendering resource has been created or registered with the tracker; a
\* cubeResolution equal to the limit is accepted.
C2_LimitErrorBeforeAllocation ==
    /\ (pc = "reprojThrew" /\ error = "ResourceLimitError") =>
           /\ cubeResolution > Min(maxTextureSize, glMaxTextureSize)
           /\ live = {}
           /\ Tracked(memory) = {}
    /\ (pc \in {"reprojScene", "reprojFace", "reprojRender", "reprojected"}) =>
           cubeResolution <= Min(maxTextureSize, glMaxTextureSize)
    /\ (pc = "reprojThrew" /\ error # "ResourceLimitError") =>
           cubeResolution <= Min(maxTextureSize, glMaxTextureSize)

\* The place of a face among the input faces.
FacePlace(faceName) == CHOOSE k \in 1..Len(faces) : faces[k].name = faceName

\* Face-major in input order, then level descending, then row y, then column x.
TileBefore(a, b) ==
    \/ FacePlace(a.face) < FacePlace(b.face)
    \/ /\ a.face = b.face
       /\ \/ a.level > b.level
          \/ /\ a.level = b.level
             /\ \/ a.y < b.y
                \/ a.y = b.y /\ a.x < b.x

InOrder(list) == \A k \in 1..(Len(list) - 1) : TileBefore(list[k], list[k + 1])

\* The tiles of the running level that a list holds.
OfRunningLevel(list) ==
    {k \in 1..Len(list) :
        list[k].face = faces[faceIndex + 1].name /\ list[k].level = level}

\* C3: for every interleaving of encode completions the list of
\* generateTilePyramid is ordered face-major (input order f, r, b, l, u, d),
\* then level descending, then row-major; the tiles of a batch are appended
\* only once every encode of the batch has resolved, so the list holds whole
\* batches only and no unresolved slot, whichever encode finished first.
C3_OrderedWholeBatches ==
    /\ \A k \in 1..Len(tiles) : tiles[k] # NoTile
    /\ \A k \in 1..Len(faceTiles) : faceTiles[k] # NoTile
    /\ InOrder(tiles \o faceTiles)
    /\ (pc \in {"batchLoop", "awaitBatch"}) =>
           Cardinality(OfRunningLevel(faceTiles)) =
               Min(batchI, Len(TileCoords(currentResolution, tileSize)))
    /\ (pc = "awaitBatch") =>
           \A k \in 1..Len(batchResults) :
               batchResults[k] # NoTile =>
                   LET c == BatchSlice(TileCoords(currentResolution, tileSize),
                                       batchI)[k]
                   IN  batchResults[k].x = c.x /\ batchResults[k].y = c.y
    /\ (pc = "tiled") => faceTiles = <<>> /\ InOrder(tiles)

\* C3 witness: in the last batch of the last face a later encode has resolved
\* before an earlier one, with the tiles of the earlier faces in the list.
C3_Witness ==
    /\ pc = "awaitBatch"
    /\ faceIndex = Len(faces) - 1
    /\ level = 1
    /\ Len(tiles) > 0
    /\ \E j, k \in 1..Len(batchResults) :
          j < k /\ batchResults[j] = NoTile /\ batchResults[k] # NoTile

\* The place of a tile in the row-major list of its level.
CoordPlace(t, res, tSize) == t.y * TilesPerSide(res, tSize) + t.x + 1

\* C4: at most 10 tile encodes are in flight at any time: a level is cut into
\* consecutive batches of at most 10, and no encode of the next batch, level
\* or face starts before every encode of the current batch has resolved (all
\* encodes in flight belong to the one batch being awaited).
C4_AtMostTenInFlight ==
    /\ Cardinality(inFlight) <= 10
    /\ (pc # "awaitBatch") => inFlight = {}
    /\ \A t \in inFlight :
          /\ t.face = faces[faceIndex + 1].name
          /\ t.level = level
          /\ CoordPlace(t, currentResolution, tileSize) > batchI
          /\ CoordPlace(t, currentResolution, tileSize) <= batchI + 10
    /\ (pc = "awaitBatch") =>
          /\ batchI % 10 = 0
          /\ Len(batchResults) <= 10
          /\ Len(batchResults) =
                 Min(10, Len(TileCoords(currentResolution, tileSize)) - batchI)

\* C4 witness: a level of more than 10 tiles with exactly 10 encodes in flight.
C4_Witness ==
    /\ pc = "awaitBatch"
    /\ Len(TileCoords(currentResolution, tileSize)) > 10
    /\ Cardinality(inFlight) = 10

\* C9: for every cubeResolution >= 1 and tileSize >= 1, with
\* maxLevel = calculateMaxLevel(cubeResolution, tileSize), level 1 of the
\* pyramid (the face resolution floor-halved maxLevel - 1 times) has a
\* resolution between 1 and tileSize and so resolves to exactly one tile per
\* side, one tile per face.
C9_LevelOneIsOneTile ==
    (pc = "levels" /\ level = 1) =>
        /\ currentResolution >= 1
        /\ currentResolution <= tileSize
        /\ TilesPerSide(currentResolution, tileSize) = 1
        /\ TilesPerSide(currentResolution, tileSize)
             * TilesPerSide(currentResolution, tileSize) = 1

\* C9 witness: level 1 reached by halving through at least two levels, in a
\* case where the edge-case correction of calculateMaxLevel fired.
C9_Witness ==
    /\ pc = "levels"
    /\ level = 1
    /\ maxLevel >= 3
    /\ cubeResolution > tileSize
    /\ currentResolution = tileSize
    /\ maxLevel = CeilLog2Ratio(cubeResolution, tileSize)

\* The least k in 0..13 with e * 2^k >= c (ceil(log2(c / e)) for c >= e >= 1).
LeastDoubling(c, e) ==
    CHOOSE k \in 0..13 :
        /\ e * Pow2(k) >= c
        /\ \A j \in 0..(k - 1) : e * Pow2(j) < c

\* The level formula as the specification words it.
FormulaLevels(c, t) ==
    LET e == Min(t, c)
        levels == LeastDoubling(c, e) + 1
        decrement == levels >= 2 /\ (c \div Pow2(levels - 2)) = e
    IN  Max(1, IF decrement THEN levels - 1 ELSE levels)

\* The values the specification and the tests give.
LevelTable(c, t) ==
    /\ (c = 512 /\ t = 512) => maxLevel = 1
    /\ (c = 1024 /\ t = 512) => maxLevel = 2
    /\ (c = 2048 /\ t = 512) => maxLevel = 3
    /\ (c = 4096 /\ t = 512) => maxLevel = 4
    /\ (c = 256 /\ t = 512) => maxLevel = 1
    /\ (c = 64 /\ t = 512) => maxLevel >= 1
    /\ (c = 1 /\ t = 1) => maxLevel >= 1

\* C10: for all integers cubeResolution >= 1 and tileSize >= 1,
\* calculateMaxLevel returns max(1, levels) with e = min(tileSize,
\* cubeResolution), levels = ceil(log2(cubeResolution / e)) + 1, decremented by
\* one exactly when levels >= 2 and floor(cubeResolution / 2^(levels-2)) = e;
\* the result is an integer >= 1 and the tabulated values hold.
C10_MaxLevelFormula ==
    (pc = "levels") =>
        /\ maxLevel \in Nat
        /\ maxLevel >= 1
        /\ maxLevel = FormulaLevels(cubeResolution, tileSize)
        /\ LevelTable(cubeResolution, tileSize)

\* C10 witness: the tabulated (4096, 512) case has been computed.
C10_Witness ==
    /\ pc = "levels"
    /\ cubeResolution = 4096
    /\ tileSize = 512
    /\ maxLevel = 4

\* The configs the validation is specified to refuse: no source, no or an
\* unknown output mode, a quality outside [0,1] (in hundredths), a tileSize
\* below 1.
RefusedConfig(cfg) ==
    \/ cfg.sourceImage = ""
    \/ cfg.output \notin {"zip", "raw", "stream"}
    \/ cfg.quality # Undefined /\ (cfg.quality[1] < 0 \/ cfg.quality[1] > 100)
    \/ cfg.tileSize # Undefined /\ cfg.tileSize[1] < 1

\* A call that was turned away at its entry has done nothing.
NothingDone ==
    /\ pc = "idle"
    /\ ~loadStarted
    /\ progressLog = <<>>
    /\ lastEmit = NoEmit
    /\ errorEmits = 0
    /\ live = {}
    /\ Tracked(memory) = {}
    /\ faces = <<>>
    /\ tiles = <<>>
    /\ result = NoResult

\* C5: once dispose() has run (once or several times, never failing), every
\* process() call, whatever its config, valid or invalid, can be made and
\* rejects with the disposal error: no source load is started, no progress
\* event is emitted, no resource is created, and the call neither resolves
\* nor stays pending.
C5_DisposedRejectsFirst ==
    /\ [][(disposed /\ Process(config')) =>
            (outcome' = "rejected" /\ error' = "DisposedError"
             /\ NothingDone')]_vars
    /\ [][Dispose => (disposed' /\ error' = error /\ pc' = pc)]_vars
    /\ [][disposed => disposed']_vars
    /\ []((disposed /\ pc = "idle") =>
            (ENABLED Dispose /\ \A cfg \in Configs : ENABLED Process(cfg)))

\* C5 witness: an instance that ran a call, was disposed, and was called again.
C5_Witness ==
    /\ disposed
    /\ runs = 1
    /\ outcome = "rejected"
    /\ error = "DisposedError"
    /\ pc = "idle"

\* C6: on an instance that is not disposed, a process() call whose config has
\* no source, no or an unknown output mode, a quality outside [0,1] or a
\* tileSize below 1 rejects with a configuration error before any
\* processing: no load, no progress event, no reprojection or tiling, and the
\* instance is left as usable as it was (not disposed, idle, listeners kept).
C6_InvalidConfigRejectedEarly ==
    [][(~disposed /\ RefusedConfig(config') /\ Process(config')) =>
          /\ outcome' = "rejected"
          /\ error' \in ConfigErrors
          /\ NothingDone'
          /\ ~disposed'
          /\ listeners' = listeners
          /\ runs' = runs]_vars

\* C6 witness: a call refused for its quality on a live instance.
C6_Witness ==
    /\ ~disposed
    /\ outcome = "rejected"
    /\ error = "QualityRange"
    /\ pc = "idle"

ThrewStates == {"threw", "reprojThrew", "tilerThrew"}

\* C7: when a listener registered with on() throws during an emit, every
\* listener of the event is still invoked and nothing of it reaches the
\* pipeline: a progress event leaves the call running, an error event leaves
\* the call rejected with the error that was caught, and no call ever fails
\* with what a listener threw.
C7_ListenerThrowIsolated ==
    /\ [][(lastEmit' # lastEmit /\ lastEmit'.throwers # {}) =>
            /\ lastEmit'.invoked = lastEmit'.registered
            /\ ~lastEmit'.propagated
            /\ (lastEmit'.event = "progress") => (pc' \notin ThrewStates)
            /\ (lastEmit'.event = "error") =>
                   (outcome' = "rejected" /\ error' = error)]_vars
    /\ [](error # "ListenerError")

\* C7 witness: a call resolved although the first of two progress listeners
\* threw on the last event.
C7_Witness ==
    /\ outcome = "resolved"
    /\ lastEmit.event = "progress"
    /\ Len(lastEmit.registered) = 2
    /\ lastEmit.registered[1] \in lastEmit.throwers

\* The raster resolution at a level: cubeResolution halved maxLevel - L times.
LevelResolution(lvl) == cubeResolution \div Pow2(maxLevel - lvl)

\* ceil(r_L / tileSize) squared.
LevelTileCount(lvl) ==
    LET side == CeilDiv(LevelResolution(lvl), tileSize) IN side * side

RECURSIVE PyramidTileCount(_)
\* The tile counts of the levels 1..lvl of one face, added up.
PyramidTileCount(lvl) ==
    IF lvl = NaN \/ lvl < 1 THEN 0
    ELSE LevelTileCount(lvl) + PyramidTileCount(lvl - 1)

TilesOf(faceName, lvl) ==
    {k \in 1..Len(tiles) : tiles[k].face = faceName /\ tiles[k].level = lvl}

\* generateTilePyramid has returned to process().
PyramidReturned ==
    pc \in {"tiled", "fallback", "package", "zipping"} \/ outcome = "resolved"

\* C8: the pyramid holds, for every face and every level L in 1..maxLevel,
\* exactly ceil(r_L / tileSize) squared tiles and no others, and the
\* totalTiles of a result is the sum of these over the six faces and all
\* levels, plus six with fallback tiles and plus nothing without.
C8_TileCounts ==
    /\ PyramidReturned =>
           /\ \A k \in 1..Len(FACE_CONFIGS) :
                 \A lvl \in 1..(IF maxLevel = NaN THEN 0 ELSE maxLevel) :
                     Cardinality(TilesOf(FACE_CONFIGS[k], lvl)) =
                         LevelTileCount(lvl)
           /\ Len(tiles) = Len(FACE_CONFIGS) * PyramidTileCount(maxLevel)
    /\ (outcome = "resolved") =>
           result.metadata.totalTiles =
               Len(FACE_CONFIGS) * PyramidTileCount(maxLevel)
                   + (IF fallbackTiles THEN Len(FACE_CONFIGS) ELSE 0)

\* C8 witness: a result with fallback tiles over a pyramid of two levels whose
\* upper level has partial edge tiles.
C8_Witness ==
    /\ outcome = "resolved"
    /\ fallbackTiles
    /\ maxLevel = 2
    /\ result.metadata.totalTiles = 36

\* A JSON number that is an integer of at least n.
JsonIntegerAtLeast(json, n) == json[1] = "number" /\ json[2] >= n

\* C11: the descriptor and the metadata of every resolved process() call have
\* a cubeResolution divisible by 8 and a maxLevel that is an integer of at
\* least 1, whatever valid config was given (overrides included) and however
\* narrow the source was.
C11_DimensionsWellFormed ==
    (outcome = "resolved") =>
        /\ result.metadata.cubeResolution % 8 = 0
        /\ result.metadata.maxLevel # NaN
        /\ result.metadata.maxLevel >= 1
        /\ ConfigJson.multiRes.cubeResolution[1] = "number"
        /\ ConfigJson.multiRes.cubeResolution[2] % 8 = 0
        /\ JsonIntegerAtLeast(ConfigJson.multiRes.maxLevel, 1)

\* The names of the faces that have a tile at a level.
FacesAtLevel(lvl) == {tiles[k].face : k \in {j \in 1..Len(tiles) : tiles[j].level = lvl}}

\* reprojectToCubeFaces has returned its faces.
FacesReturned ==
    pc \in {"reprojected", "faceLoop", "levelLoop", "batchLoop", "awaitBatch",
            "yield", "tiled"}

\* generateTilePyramid has returned its list for faces a reprojection can
\* return (a face is never empty).
PyramidDelivered == pc = "tiled" /\ cubeResolution >= 1

\* The six faces in render order, each of the resolution asked for.
SixFacesInOrder ==
    /\ Len(faces) = 6
    /\ \A k \in 1..Len(faces) :
          /\ faces[k].name = <<"f", "r", "b", "l", "u", "d">>[k]
          /\ faces[k].resolution = cubeResolution

\* No (level, face, x, y) is held by two tiles of the list.
NoTileTwice ==
    \A j, k \in 1..Len(tiles) :
        (/\ tiles[j].level = tiles[k].level
         /\ tiles[j].face = tiles[k].face
         /\ tiles[j].x = tiles[k].x
         /\ tiles[j].y = tiles[k].y) => j = k

\* C12: reprojectToCubeFaces returns the six faces f, r, b, l, u, d in that
\* order, each at cubeResolution, and the pyramid made of them has, at every
\* level L in 1..maxLevel, tiles of exactly these six faces and no tile twice.
C12_SixFacesAtEveryLevel ==
    /\ FacesReturned => SixFacesInOrder
    /\ PyramidDelivered =>
           /\ \A lvl \in 1..(IF maxLevel = NaN THEN 0 ELSE maxLevel) :
                 FacesAtLevel(lvl) = {"f", "r", "b", "l", "u", "d"}
           /\ NoTileTwice

\* `{level}/{face}/{x}_{y}.{ext}`, kept as its parts.
TilePath(lvl, faceName, x, y, ext) == <<lvl, faceName, x, y, ext>>

\* The tiles generateTilePyramid holds: returned, or to be returned.
HeldTiles == tiles \o faceTiles

\* C13: every tile of generateTilePyramid has a level in 1..maxLevel, a face
\* in {f, r, b, l, u, d}, x and y in 0..tilesPerSide-1 of its level, and the
\* path {level}/{face}/{x}_{y}.{ext} of its own fields, with ext jpg for jpeg
\* and webp for webp; two tiles never have the same path.
C13_TileFieldsAndPath ==
    /\ \A k \in 1..Len(HeldTiles) :
          LET t == HeldTiles[k]
              side == CeilDiv(cubeResolution \div Pow2(maxLevel - t.level),
                              tileSize)
          IN  /\ maxLevel # NaN
              /\ 1 <= t.level /\ t.level <= maxLevel
              /\ t.face \in {"f", "r", "b", "l", "u", "d"}
              /\ 0 <= t.x /\ t.x < side
              /\ 0 <= t.y /\ t.y < side
              /\ t.path = TilePath(t.level, t.face, t.x, t.y,
                                   IF imageFormat = "jpeg" THEN "jpg" ELSE "webp")
    /\ \A j, k \in 1..Len(HeldTiles) :
          HeldTiles[j].path = HeldTiles[k].path => j = k

\* C13 witness: a returned webp pyramid of two levels with a tile off the
\* diagonal.
C13_Witness ==
    /\ pc = "tiled"
    /\ imageFormat = "webp"
    /\ maxLevel = 2
    /\ \E k \in 1..Len(tiles) : tiles[k].x = 1 /\ tiles[k].y = 0

\* The items of a whole stream: the descriptor, then the structured-mode tile
\* list in its order.
WholeStream ==
    <<[type |-> "config", path |-> CONFIG_PATH, blob |-> ConfigJson]>> \o
    [k \in 1..Len(AllTiles) |->
        [type |-> "tile", path |-> AllTiles[k].path, blob |-> AllTiles[k].blob,
         level |-> AllTiles[k].level, face |-> AllTiles[k].face,
         x |-> AllTiles[k].x, y |-> AllTiles[k].y]]

\* C14: what the tile sequence of a stream result has yielded is always a
\* prefix of: the descriptor item (path config.json), then every tile of the
\* structured-mode list in its order, fallback tiles last; when the sequence
\* has ended it has yielded all of it, tile count + 1 items, and next() calls
\* made after the end add nothing.
C14_StreamIsConfigThenTiles ==
    (stream.state # "none") =>
        /\ result.kind = "stream"
        /\ Len(stream.yielded) <= Len(WholeStream)
        /\ stream.yielded = SubSeq(WholeStream, 1, Len(stream.yielded))
        /\ (stream.state = "done") =>
               /\ stream.yielded = WholeStream
               /\ Len(stream.yielded) = result.metadata.totalTiles + 1

\* C14 witness: a stream with pyramid and fallback tiles was consumed to its
\* end and asked again.
C14_Witness ==
    /\ stream.state = "done"
    /\ stream.drained = MaxDrainedCalls
    /\ Len(tiles) >= 12
    /\ Len(fallbackTilesList) = 6

\* The entries an archive of the call's descriptor and tiles has to hold.
ArchiveEntries ==
    {[path |-> CONFIG_PATH, bytes |-> ConfigJson]} \cup
    {[path |-> AllTiles[k].path, bytes |-> AllTiles[k].blob] :
        k \in 1..Len(AllTiles)}

\* C15: the archive of a zip result holds one entry for config.json with the
\* descriptor text and one entry per tile of the structured-mode list under
\* the tile's path with the tile's blob bytes, and nothing else: as many
\* entries as tiles plus one, none lost to a shared path.
C15_ArchiveMatchesTiles ==
    /\ (pc = "zipping") => Cardinality(files) = 1 + zipI
    /\ (outcome = "resolved" /\ result.kind = "zip") =>
           /\ result.blob = ArchiveEntries
           /\ Cardinality(result.blob) = 1 + Len(AllTiles)
           /\ Cardinality({e.path : e \in result.blob}) = 1 + Len(AllTiles)
           /\ result.metadata.totalTiles = Len(AllTiles)

\* C15 witness: an archive of a two-level pyramid with fallback tiles.
C15_Witness ==
    /\ outcome = "resolved"
    /\ result.kind = "zip"
    /\ Len(tiles) >= 12
    /\ Len(fallbackTilesList) = 6
    /\ Cardinality(result.blob) = 1 + Len(tiles) + 6

\* `fallback/{face}.{ext}`, kept as its parts.
FallbackPath(faceName, ext) == <<"fallback", faceName, ext>>

\* The k-th tile of generateFallbackTiles is the tile of the k-th face.
IsFallbackOf(t, k) ==
    /\ t.face = faces[k].name
    /\ t.level = 0
    /\ t.x = 0
    /\ t.y = 0
    /\ t.path = FallbackPath(faces[k].name,
                             IF imageFormat = "jpeg" THEN "jpg" ELSE "webp")
    /\ t.blob = [sx |-> 0, sy |-> 0, sw |-> cubeResolution,
                 sh |-> cubeResolution, outputSize |-> 1024]

\* process() has built allTiles and the descriptor.
Packaged == pc \in {"package", "zipping"} \/ outcome = "resolved"

\* C16: generateFallbackTiles produces, face by face in face order, one tile
\* of level 0 at x = y = 0 with path fallback/{face}.{ext} whose crop is the
\* whole face (0, 0, resolution, resolution) scaled to fallbackSize; when
\* process() packages, allTiles is the pyramid followed by these six tiles if
\* fallbackTiles was requested and the pyramid alone if not, and the
\* descriptor has a fallbackPath exactly when it was requested.
C16_FallbackTiles ==
    /\ Len(fallbackTilesList) <= Len(faces)
    /\ \A k \in 1..Len(fallbackTilesList) :
          IsFallbackOf(fallbackTilesList[k], k)
    /\ Packaged =>
          /\ Len(fallbackTilesList) = (IF fallbackTiles THEN 6 ELSE 0)
          /\ SubSeq(AllTiles, 1, Len(tiles)) = tiles
          /\ SubSeq(AllTiles, Len(tiles) + 1, Len(AllTiles)) = fallbackTilesList
          /\ \A k \in 1..Len(tiles) : tiles[k].level >= 1
          /\ fallbackTiles <=> "fallbackPath" \in DOMAIN ConfigJson.multiRes
          /\ (outcome = "resolved" /\ result.kind \in {"raw", "stream"}) =>
                 /\ result.tiles = AllTiles
                 /\ fallbackTiles <=>
                        "fallbackPath" \in DOMAIN result.config.multiRes

\* C16 witness: a structured result whose six fallback tiles follow the
\* pyramid of a source 1634 pixels wide.
C16_Witness ==
    /\ outcome = "resolved"
    /\ result.kind = "raw"
    /\ fallbackTiles
    /\ cubeResolution = 520
    /\ Len(tiles) >= 6
    /\ Len(result.tiles) = Len(tiles) + 6

\* A tile encode has failed in the call that is running or was last made.
EncodeFailed == error = "EncodeError"

\* The failed call has no result, archive or stream, holds no tiles of the
\* list that was being built, and left no rendering resource tracked or alive.
AbortedClean ==
    /\ pc \in {"tilerThrew", "threw", "idle"}
    /\ outcome = (IF pc = "idle" THEN "rejected" ELSE "pending")
    /\ result = NoResult
    /\ stream = NoStream
    /\ files = {}
    /\ faceTiles = <<>>
    /\ batchResults = <<>>
    /\ fallbackTilesList = <<>>
    /\ (faceIndex < Len(faces)) => tiles = <<>>
    /\ memory = EmptyMemory
    /\ live = {}
    /\ Len(disposeLog) = 5

\* The step on which an encode fails appends nothing and moves no loop.
FailureAppendsNothing ==
    /\ Len(tiles') <= Len(tiles)
    /\ Len(faceTiles') <= Len(faceTiles)
    /\ Len(fallbackTilesList') <= Len(fallbackTilesList)
    /\ UNCHANGED <<faceIndex, level, batchI, currentResolution>>

\* The only step of a call whose encode failed: the catch block emits 'error'
\* once and the call rejects with the encode error; no loop moved.
RejectsWithEncodeError ==
    /\ pc' = "idle"
    /\ outcome' = "rejected"
    /\ error' = "EncodeError"
    /\ errorEmits' = errorEmits + 1
    /\ result' = NoResult
    /\ UNCHANGED <<tilerVars, fallbackTilesList, files, zipI, faces, memory>>

\* C17: the step on which a tile encode fails appends no tile and moves no
\* loop; from then on the call has no tile list, archive or stream to return, the reprojection's tracker is empty with its five resources
\* disposed, and the one step left to the call is its rejection with the
\* encode error: no encode is repeated and no batch, level or face starts.
C17_EncodeFailureAborts ==
    /\ [](EncodeFailed => AbortedClean)
    /\ [][(~EncodeFailed /\ EncodeFailed') => FailureAppendsNothing]_vars
    /\ [][(EncodeFailed /\ pc # "idle") => RejectsWithEncodeError]_vars

\* C17 witness: the call was rejected with the encode error of a pyramid tile
\* of the third face, under a listener for 'error' that throws.
C17_Witness ==
    /\ pc = "idle"
    /\ outcome = "rejected"
    /\ error = "EncodeError"
    /\ faceIndex = 2
    /\ errorEmits = 1

\* C18 (refuted): after a disposeAll call the call has not thrown and the
\* tracker is empty, whichever dispose() failed.
C18_ReleaseNeverRaises ==
    (calls.op = "disposeAll") =>
        /\ ~calls.raised
        /\ memory = EmptyMemory

\* This step is a disposeAll call.
ReleaseStep ==
    /\ calls'.op = "disposeAll"
    /\ calls'.releases = calls.releases + 1

\* What the disposeAll call of this step has disposed, in order.
ReleasedNow == SubSeq(disposeLog', Len(disposeLog) + 1, Len(disposeLog'))

\* The place of a tracked resource's category in the order of disposal.
CategoryRank(r) ==
    IF r \in memory.textures THEN 1
    ELSE IF r \in memory.geometries THEN 2
    ELSE IF r \in memory.materials THEN 3
    ELSE IF r \in memory.renderTargets THEN 4
    ELSE 5

\* A disposeAll call that returns has disposed each tracked resource once,
\* category after category, and left the tracker and the renderer released.
ReleasesAllInOrder ==
    /\ Range(ReleasedNow) = Tracked(memory)
    /\ Len(ReleasedNow) = Cardinality(Tracked(memory))
    /\ \A i, j \in 1..Len(ReleasedNow) :
          i < j => CategoryRank(ReleasedNow[i]) <= CategoryRank(ReleasedNow[j])
    /\ memory'.textures = {}
    /\ memory'.geometries = {}
    /\ memory'.materials = {}
    /\ memory'.renderTargets = {}
    /\ memory'.renderer = NULL
    /\ IF memory.renderer # NULL
       THEN webgl'.contextLost /\ webgl'.canvas = 1
       ELSE webgl' = webgl

\* This step is a track call: it has returned the resource it was given,
\* which is now in the set of its kind.
TrackReturnsResource ==
    /\ calls'.op = "trackTexture" => calls'.returned \in memory'.textures
    /\ calls'.op = "trackGeometry" => calls'.returned \in memory'.geometries
    /\ calls'.op = "trackMaterial" => calls'.returned \in memory'.materials
    /\ calls'.op = "trackRenderTarget" =>
           calls'.returned \in memory'.renderTargets
    /\ Tracked(memory') = Tracked(memory) \cup {calls'.returned}
    /\ ~calls'.raised

DisposedOnce ==
    \A i, j \in 1..Len(disposeLog) : disposeLog[i] = disposeLog[j] => i = j

\* A disposeAll call on an empty tracker changes nothing and returns.
EmptyReleaseIsNoOp ==
    /\ ~calls'.raised
    /\ calls'.disposed = 0
    /\ UNCHANGED <<memory, live, disposeLog, webgl, error>>

PiBelow == 314159

PiAbove == 314160

PiDigits == 100000

\* r = 8 * floor(w / pi / 8): r is a multiple of 8 with r * pi <= w and
\* w < (r + 8) * pi, decided with the bounds on pi.
IsCubeResolutionOf(r, w) ==
    /\ r >= 0
    /\ r % 8 = 0
    /\ r * PiAbove <= w * PiDigits
    /\ w * PiDigits < (r + 8) * PiBelow

\* calculateCubeResolution has returned.
Sized == entry = "resolution" /\ pc \in {"sized", "levelled"}

C22_DescriptorFields ==
    (pc = "described") =>
        LET d == result.json
        IN  /\ DOMAIN d = {"type", "multiRes"}
            /\ d.type = "multires"
            /\ d.multiRes.basePath = "./"
            /\ d.multiRes.path = "/%l/%s/%x_%y"
            /\ d.multiRes.tileResolution = <<"number", tileSize>>
            /\ d.multiRes.maxLevel = <<"number", maxLevel>>
            /\ d.multiRes.cubeResolution = <<"number", cubeResolution>>
            /\ d.multiRes.extension =
                   (IF imageFormat = "jpeg" THEN "jpg" ELSE "webp")
            /\ fallbackTiles <=> "fallbackPath" \in DOMAIN d.multiRes
            /\ fallbackTiles => d.multiRes.fallbackPath = "/fallback/%s"
            /\ DOMAIN d.multiRes \ {"fallbackPath"} =
                   {"basePath", "path", "extension", "tileResolution",
                    "maxLevel", "cubeResolution"}

\* C22 witness: the descriptor of a webp tile set with fallback tiles.
C22_Witness ==
    /\ pc = "described"
    /\ imageFormat = "webp"
    /\ fallbackTiles
    /\ tileSize = 512
    /\ maxLevel = 3
    /\ cubeResolution = 2048

\* The progress event of the i-th face, i counted from 0.
FaceEvent(i) ==
    [stage |-> "reprojection", progress |-> <<i, 6>>,
     currentFace |-> <<"f", "r", "b", "l", "u", "d">>[i + 1],
     currentLevel |-> 0]

\* The completion event of the reprojection.
CompletionEvent ==
    [stage |-> "reprojection", progress |-> <<1, 1>>, currentFace |-> "",
     currentLevel |-> 0]

\* C23: reprojectToCubeFaces reports, face by face in the order f, r, b, l,
\* u, d, one event with progress i/6 and the face's name before the face is
\* rendered, and after the sixth face one completion event with progress 1:
\* seven events when it has returned, and never an event ahead of or behind
\* the faces rendered.
C23_SevenReprojectionEvents ==
    (entry = "reprojector") =>
        /\ Len(progressLog) <= 7
        /\ \A k \in 1..Len(progressLog) :
              progressLog[k] = (IF k <= 6 THEN FaceEvent(k - 1)
                                ELSE CompletionEvent)
        /\ Len(progressLog) <= 6 =>
               Len(progressLog) \in {Len(faces), Len(faces) + 1}
        /\ (pc = "reprojRender") => Len(progressLog) = Len(faces) + 1
        /\ Len(progressLog) = 7 => Len(faces) = 6
        /\ (pc = "reprojected") =>
               /\ Len(progressLog) = 7
               /\ Len(faces) = 6

\* C23 witness: a reprojection has returned its six faces to a caller that
\* listens.
C23_Witness ==
    /\ entry = "reprojector"
    /\ pc = "reprojected"
    /\ onProgress # "none"
    /\ Len(progressLog) = 7
    /\ cubeResolution >= 1

\* The level loop of one face is running on a raster of at least one pixel.
InLevelLoop == entry = "levels" /\ pc = "levels" /\ cubeResolution >= 1

\* The resolutions of the levels: the original raster at maxLevel, a floored
\* power-of-two fraction of it below, more than a tile above level 1 and at
\* most a tile at level 1.
LevelResolutionsFit ==
    InLevelLoop =>
        /\ maxLevel >= 1
        /\ level \in 1..maxLevel
        /\ (level = maxLevel) => currentResolution = cubeResolution
        /\ currentResolution = cubeResolution \div Pow2(maxLevel - level)
        /\ currentResolution >= 1
        /\ (level >= 2) => currentResolution > tileSize
        /\ (level = 1) => currentResolution <= tileSize

\* One level down, the raster is the previous level's raster halved and
\* floored, and it is smaller.
LevelHalvesPrevious ==
    (InLevelLoop /\ level' # level) =>
        /\ level' = level - 1
        /\ currentResolution' = currentResolution \div 2
        /\ currentResolution' < currentResolution

\* C24: the raster at maxLevel is the original face raster; each lower level
\* L has the level L+1 resolution halved and floored, which is
\* floor(cubeResolution / 2^(maxLevel - L)); with maxLevel =
\* calculateMaxLevel(cubeResolution, tileSize) and cubeResolution >= 1 the
\* resolutions strictly decrease, every level >= 2 is larger than a tile and
\* level 1 fits in one tile.
C24_LevelResolutions == []LevelResolutionsFit /\ [][LevelHalvesPrevious]_vars

\* C24 witness: the loop has come down to level 1 of a pyramid of three
\* levels whose resolutions were floored twice.
C24_Witness ==
    /\ InLevelLoop
    /\ maxLevel = 3
    /\ level = 1
    /\ cubeResolution = 23
    /\ tileSize = 6
    /\ currentResolution = 5

\* The crop of tile t is the rectangle the claim gives for a raster of
\* resolution r, inside the raster and not empty.
CropWellFormed(t, r) ==
    LET c == t.blob
    IN  /\ c.sx = t.x * tileSize
        /\ c.sy = t.y * tileSize
        /\ c.sw = (IF tileSize <= r - c.sx THEN tileSize ELSE r - c.sx)
        /\ c.sh = (IF tileSize <= r - c.sy THEN tileSize ELSE r - c.sy)
        /\ 1 <= c.sw /\ c.sw <= tileSize
        /\ 1 <= c.sh /\ c.sh <= tileSize
        /\ c.sx + c.sw <= r
        /\ c.sy + c.sh <= r
        /\ c.outputSize = tileSize

\* The pixel (px, py) lies in the crop c.
InCrop(c, px, py) ==
    /\ c.sx <= px /\ px < c.sx + c.sw
    /\ c.sy <= py /\ py < c.sy + c.sh

\* Every pixel of the raster of a face at a level lies in the crop of exactly
\* one tile of that face and level.
CropsPartition(faceName, lvl) ==
    LET r == cubeResolution \div Pow2(maxLevel - lvl)
    IN  \A px, py \in 0..(r - 1) :
            Cardinality({k \in 1..Len(tiles) :
                            /\ tiles[k].face = faceName
                            /\ tiles[k].level = lvl
                            /\ InCrop(tiles[k].blob, px, py)}) = 1

\* C25: every tile (x, y) of a level of resolution r is cropped at
\* (x * tileSize, y * tileSize) with width min(tileSize, r - sx) and height
\* min(tileSize, r - sy), both in 1..tileSize and inside the raster, and is
\* encoded at tileSize x tileSize; the crops of one level of a face are
\* pairwise disjoint and cover the r x r raster.
C25_CropRectangles ==
    /\ \A k \in 1..Len(HeldTiles) :
          CropWellFormed(HeldTiles[k],
                         cubeResolution \div Pow2(maxLevel - HeldTiles[k].level))
    /\ (pc = "tiled") =>
           \A f \in 1..Len(faces) :
               \A lvl \in 1..(IF maxLevel = NaN THEN 0 ELSE maxLevel) :
                   CropsPartition(faces[f].name, lvl)

\* C25 witness: a returned pyramid whose top level of 3 pixels is cut into
\* tiles of 2, with a corner tile of 1 x 1 and an edge tile of 1 x 2.
C25_Witness ==
    /\ pc = "tiled"
    /\ cubeResolution = 3
    /\ tileSize = 2
    /\ Len(faces) = 6
    /\ \E j, k \in 1..Len(tiles) :
          /\ tiles[j].blob.sw = 1 /\ tiles[j].blob.sh = 1
          /\ tiles[k].blob.sw = 1 /\ tiles[k].blob.sh = 2

\* The fraction p, numerator over denominator, lies in [0, 1].
WithinUnit(p) == p[2] > 0 /\ 0 <= p[1] /\ p[1] <= p[2]

\* p <= q for fractions of positive denominators.
FractionLeq(p, q) == p[1] * q[2] <= q[1] * p[2]

\* The positions of the tiling events among the events delivered.
TilingEvents == {k \in 1..Len(progressLog) : progressLog[k].stage = "tiling"}

\* The position in the pyramid's face list of the face named.
FaceIndexOf(faceName) ==
    (CHOOSE k \in 1..Len(faces) : faces[k].name = faceName) - 1

\* The event e of a batch has the progress
\* (faceIndex + (maxLevel - level + completedInLevel / tilesInLevel) /
\* maxLevel) / faceCount, completedInLevel being the end of a batch.
IsBatchProgress(e) ==
    LET total == LevelTileCount(e.currentLevel)
        f == FaceIndexOf(e.currentFace)
    IN  /\ maxLevel >= 1
        /\ total >= 1
        /\ \E completed \in 1..total :
              /\ completed = total \/ completed % 10 = 0
              /\ e.progress[1] * (total * maxLevel * Len(faces)) =
                     ((f * maxLevel + (maxLevel - e.currentLevel)) * total
                      + completed) * e.progress[2]

EntryErrors ==
    {"DisposedError", "SourceRequired", "OutputRequired", "InvalidOutput",
     "QualityRange", "TileSizePositive"}

\* A call rejected by a failure inside the try block emitted 'error' once, as
\* its last emit, and a call that was not rejected there emitted none.
FailuresInTryEmittedOnce ==
    /\ (outcome = "rejected" /\ error \notin EntryErrors) =>
           /\ errorEmits = 1
           /\ lastEmit.event = "error"
           /\ lastEmit.invoked = lastEmit.registered
    /\ (outcome = "resolved") => errorEmits = 0
    /\ (pc \in {"threw", "reprojThrew", "tilerThrew"}) =>
           /\ errorEmits = 0
           /\ error # NoError

\* The disposal error and the configuration errors are not emitted.
EntryFailuresNotEmitted ==
    (outcome = "rejected" /\ error \in EntryErrors) =>
        /\ errorEmits = 0
        /\ lastEmit.event # "error"

\* An exception of the per-call onProgress callback is on its way to the
\* catch block, or has rejected the call.
CallbackFailureRejects ==
    (uncaught > 0) =>
        \/ pc \in {"threw", "reprojThrew", "tilerThrew"}
        \/ outcome = "rejected" /\ error = "CallbackError"

\* C27 (refuted): every failure raised inside the pipeline after validation,
\* an exception of the per-call onProgress callback included, is emitted once
\* to the 'error' listeners and rejects process() with that error; the
\* disposal error and the configuration errors reject without an emit.
C27_FailuresEmittedOnce ==
    (entry = "process") =>
        /\ FailuresInTryEmittedOnce
        /\ EntryFailuresNotEmitted
        /\ CallbackFailureRejects

\* This step is the dispose() that disposes of the instance.
DisposeStep == ~disposed /\ disposed'

\* dispose() clears the registry and changes nothing of a call in flight:
\* its position, its error, its data and what it has reported stay.
DisposeLeavesCallAlone ==
    DisposeStep =>
        /\ listeners' = NoListeners
        /\ UNCHANGED <<pc, error, callVars, dimVars, reprojVars, tilerVars,
                       packVars, sinkVars>>

\* The disposal error is given to calls started on a disposed instance only:
\* a call in flight never takes it.
OnlyLaterCallsRejected ==
    /\ (pc # "idle") => error' # "DisposedError"
    /\ (error' = "DisposedError" /\ error # "DisposedError") => disposed

\* An emit on a disposed instance invokes what the registry holds at that
\* moment and nothing else: what dispose() cleared is not invoked again,
\* what on() has registered since is.
EmitReachesRegistryOnly ==
    (disposed /\ lastEmit' # lastEmit /\ lastEmit'.event # "none") =>
        /\ lastEmit'.registered = listeners[lastEmit'.event]
        /\ lastEmit'.invoked = lastEmit'.registered

\* A call in flight on a disposed instance reports its events to the
\* progress sink as before, and has a step to take.
DisposedCallGoesOn ==
    (entry = "process" /\ disposed /\ pc # "idle") =>
        /\ outcome = "pending"
        /\ ENABLED Pipeline

\* On a disposed instance no emit invokes a listener.
DisposedEmitsToNobody ==
    (disposed /\ lastEmit' # lastEmit) => lastEmit'.invoked = <<>>

====
